---- MODULE Spec2Model ----
(***************************************************************************)
(* rocketype: the typing-session engine (internal/typingtest.go), its      *)
(* statistics tracker (internal/stats.go) and the session save/restore     *)
(* path of the application (internal/app.go, session.go, textlib.go).      *)
(*                                                                         *)
(* Runes are one-character strings; texts are sequences of runes.  Go      *)
(* indexes from 0 and TLA+ sequences from 1, so sampleRunes[i] of the      *)
(* source is sampleRunes[i + 1] here; cursorPos and wordStart keep the     *)
(* source's 0-based values.  The zero time.Time is 0; the clock counts     *)
(* ticks of 1/TicksPerSecond seconds and starts at one second.             *)
(***************************************************************************)
EXTENDS Integers, Sequences, FiniteSets, TLC

VARIABLES
    phase,        \* "running" | "exited" | "crashed": the process
    sampleRunes,  \* TypingTest.sampleRunes
    userRunes,    \* TypingTest.userRunes (userInput is the same runes as a string)
    cursorPos,    \* TypingTest.cursorPos
    wordStart,    \* TypingTest.wordStart
    finished,     \* TypingTest.finished
    stats,        \* TypingTest.stats (*Stats), a record
    now,          \* time.Now()
    session,      \* the session file: <<>> when absent, else <<record>>
    ret,          \* what the last engine call returned: "true", "false", "void"
    mistyped,     \* history: the positions an incorrect keystroke was typed at
    restored,     \* history: this engine was built from a saved session
    screenSize,   \* a.screen.Size(): [width, height]
    frame,        \* what the last draw computed for the typing screen
    run,          \* App.Run: the loop, the polling goroutine and their channels
    app           \* App: mode, limitType, timeLimit, wordLimit, testStarted,
                  \* lastCheckPosition, showResults and the words of the word set

engineVars == <<sampleRunes, userRunes, cursorPos, wordStart, finished, stats>>
histVars == <<mistyped, restored>>
appVars == <<screenSize, frame, run, app>>
vars == <<phase, sampleRunes, userRunes, cursorPos, wordStart, finished, stats,
          now, session, ret, mistyped, restored, screenSize, frame, run, app>>

-----------------------------------------------------------------------------
\* Bounds of the model

\* keystrokes recorded by one Stats before typing is cut off
MaxKeys == 4
\* last clock tick
MaxTime == 3
\* clock ticks per second (RFC3339 keeps whole seconds only)
TicksPerSecond == 2
\* keystrokes recorded by a Stats that is driven on its own
MaxStatsKeys == 2
\* last second of the short sleeps of a Stats that is driven on its own
MaxStatsSec == 3
\* longest text handed to the layout functions
MaxTextLen == 4
\* widest of the narrow terminals, on which these texts wrap
MaxNarrowWidth == 3
\* snapshots of a timeline handed to the graph
MaxSnapshots == 3
\* longest text handed to the text library
MaxRawLen == 3
\* keystrokes recorded in word mode under a word limit before typing is cut off
MaxWordKeys == 11
\* last clock tick of a test under a time limit
MaxLimitTime == 5
\* words of one extension of the text of word mode (50 in internal/app.go)
wordGenerationChunk == 3

-----------------------------------------------------------------------------
\* Runes and texts

SP == " "
NL == "\n"
CR == "\r"
TAB == "\t"

\* the keys a terminal delivers as tcell.KeyRune in this model
TypedRunes == {"a", "i", SP}

\* texts the text library hands out: trimmed, non-empty, whitespace normalized
LibraryTexts ==
    { <<"a", SP, "i">>, <<"a", NL, "i">> }

\* texts piped through stdin: trimmed and non-empty, but not normalized
StdinTexts == { <<"a", CR, CR, "i">> }

\* strings.Join of zero generated words
EmptyText == <<>>

Texts == LibraryTexts \cup StdinTexts \cup {EmptyText}

-----------------------------------------------------------------------------
\* Program constants, in seconds

SnapshotIntervalSec == 1
InstantWindowSec == 3
CleanupHorizonSec == 10
CharsPerWord == 5

\* Program constants of the layout, in cells, rows and lines
widthMargin == 8
minWrapWidth == 20
drawWidthMargin == 20
heightMargin == 8
rowsPerLine == 2
minBufferBelow == 1

\* Program constants of the WPM graph: WPM per gridline, smallest graph, the
\* snapshots a graph needs, rows of the graph and margin of the results box
gridStep == 25
minGraphWidth == 10
minGraphHeight == 3
minGraphHistory == 2
resultsGraphHeight == 17
resultsGraphMargin == 8

\* Program constants of word mode: words of the first text under a time limit,
\* lines that must remain below the cursor, lines on display, initial
\* words per word of the word limit, runes the cursor advances between two
\* looks at the remaining text; and the limits of the default settings
initialWordCount == 100
wordModeLinesThreshold == 3
wordLimitMultiplier == 2
lastCheckPositionOffset == 10
wordModeVisibleLines == 3
defaultTimeLimit == 60
defaultWordLimit == 50

-----------------------------------------------------------------------------
\* Stats (internal/stats.go)

NewStats ==
    [ startTime |-> 0, endTime |-> 0,
      totalKeystrokes |-> 0, correctKeystrokes |-> 0,
      keystrokeEvents |-> <<>>,
      wpmHistory |-> <<>>, lastSnapshotTime |-> 0,
      errorTimestamps |-> <<>>,
      misspelledWords |-> [w \in {} |-> 0], misspelledOrder |-> <<>>,
      wordHadError |-> {},
      testComplete |-> FALSE ]

Start(s, t) ==
    IF s.startTime = 0 THEN [s EXCEPT !.startTime = t] ELSE s

Finish(s, t) ==
    [s EXCEPT !.endTime = t, !.testComplete = TRUE]

\* the loop of getInstantaneousWPM, from the newest event backwards
RECURSIVE CorrectInWindow(_, _, _)
CorrectInWindow(events, i, cutoffTime) ==
    IF i < 1 THEN 0
    ELSE IF events[i].timestamp < cutoffTime THEN 0
    ELSE (IF events[i].correct THEN 1 ELSE 0)
         + CorrectInWindow(events, i - 1, cutoffTime)

getInstantaneousWPM(s, t) ==
    IF s.startTime = 0 \/ Len(s.keystrokeEvents) = 0 THEN 0
    ELSE LET cutoffTime == t - InstantWindowSec * TicksPerSecond
             correctInWindow ==
                 CorrectInWindow(s.keystrokeEvents, Len(s.keystrokeEvents), cutoffTime)
         IN  (correctInWindow * 60) \div (CharsPerWord * InstantWindowSec)

\* the cleanup loop that finds nothing to drop
FirstValidIdxNever(events, cleanupCutoff) ==
    0

\* the cleanup loop of updateWPMTimeline: index (0-based) of the first event
\* that is not before the cutoff, 0 when there is none
FirstValidIdx(events, cleanupCutoff) ==
    LET valid == { i \in 1..Len(events) : ~(events[i].timestamp < cleanupCutoff) }
    IN  IF valid = {} THEN 0
        ELSE (CHOOSE i \in valid : \A j \in valid : i <= j) - 1

\* updateWPMTimeline that keeps the newest snapshot only
updateWPMTimelineKeepsLast(s, t) ==
    IF s.startTime = 0 THEN s
    ELSE LET last == IF s.lastSnapshotTime = 0 THEN s.startTime ELSE s.lastSnapshotTime
         IN  IF t - last >= SnapshotIntervalSec * TicksPerSecond
             THEN [s EXCEPT
                    !.wpmHistory = <<[Timestamp |-> t,
                                      WPM |-> getInstantaneousWPM(s, t)]>>,
                    !.lastSnapshotTime = t]
             ELSE [s EXCEPT !.lastSnapshotTime = last]

\* updateWPMTimeline that takes a snapshot at every keystroke
updateWPMTimelineEveryKey(s, t) ==
    IF s.startTime = 0 THEN s
    ELSE [s EXCEPT
           !.wpmHistory = Append(@, [Timestamp |-> t,
                                     WPM |-> getInstantaneousWPM(s, t)]),
           !.lastSnapshotTime = t]

updateWPMTimeline(s, t) ==
    IF s.startTime = 0 THEN s
    ELSE LET last == IF s.lastSnapshotTime = 0 THEN s.startTime ELSE s.lastSnapshotTime
             elapsed == t - last
         IN  IF elapsed >= SnapshotIntervalSec * TicksPerSecond
             THEN LET firstValidIdx ==
                          FirstValidIdx(s.keystrokeEvents,
                                        t - CleanupHorizonSec * TicksPerSecond)
                  IN  [s EXCEPT
                        !.wpmHistory = Append(@, [Timestamp |-> t,
                                                  WPM |-> getInstantaneousWPM(s, t)]),
                        !.lastSnapshotTime = t,
                        !.keystrokeEvents =
                            IF firstValidIdx > 0
                            THEN SubSeq(@, firstValidIdx + 1, Len(@))
                            ELSE @ ]
             ELSE [s EXCEPT !.lastSnapshotTime = last]

\* RecordKeystroke that stamps every keystroke as an error
RecordKeystrokeStampsAll(s, correct, t) ==
    LET s1 == [s EXCEPT
                 !.totalKeystrokes = @ + 1,
                 !.correctKeystrokes = IF correct THEN @ + 1 ELSE @,
                 !.errorTimestamps = IF s.startTime # 0 THEN Append(@, t) ELSE @,
                 !.keystrokeEvents =
                     IF s.startTime # 0
                     THEN Append(@, [timestamp |-> t, correct |-> correct])
                     ELSE @ ]
    IN  updateWPMTimeline(s1, t)

RecordKeystroke(s, correct, t) ==
    LET s1 == [s EXCEPT
                 !.totalKeystrokes = @ + 1,
                 !.correctKeystrokes = IF correct THEN @ + 1 ELSE @,
                 !.errorTimestamps =
                     IF ~correct /\ s.startTime # 0 THEN Append(@, t) ELSE @,
                 !.keystrokeEvents =
                     IF s.startTime # 0
                     THEN Append(@, [timestamp |-> t, correct |-> correct])
                     ELSE @ ]
    IN  updateWPMTimeline(s1, t)

MarkCurrentWordAsError(s, ws) ==
    [s EXCEPT !.wordHadError = @ \cup {ws}]

WordHadError(s, ws) ==
    ws \in s.wordHadError

\* Unicode spaces other than ' ', '\t', '\n', '\r': U+00A0, U+2003, U+2002,
\* U+2009, U+3000
UnicodeSpaces == {"nbsp", "em", "en", "thin", "ideographic"}

\* unicode.IsSpace on the runes of the model
IsSpace(r) ==
    r \in {SP, NL, CR, TAB} \cup UnicodeSpaces

RECURSIVE TrimLeft(_)
TrimLeft(w) ==
    IF w # <<>> /\ IsSpace(Head(w)) THEN TrimLeft(Tail(w)) ELSE w

RECURSIVE TrimRight(_)
TrimRight(w) ==
    IF w # <<>> /\ IsSpace(w[Len(w)]) THEN TrimRight(SubSeq(w, 1, Len(w) - 1)) ELSE w

\* strings.TrimSpace
TrimSpace(w) ==
    TrimRight(TrimLeft(w))

\* strings.Fields: the maximal runs of non-space runes, in order
RECURSIVE Fields(_)
Fields(w) ==
    LET t == TrimLeft(w)
    IN  IF t = <<>> THEN <<>>
        ELSE LET spaces == { i \in 1..Len(t) : IsSpace(t[i]) }
                 stop == IF spaces = {} THEN Len(t) + 1
                         ELSE CHOOSE i \in spaces : \A j \in spaces : i <= j
             IN  <<SubSeq(t, 1, stop - 1)>> \o Fields(SubSeq(t, stop, Len(t)))

\* strings.ContainsAny(word, "\n\r\t") || strings.Contains(word, "  ")
NeedsSplit(w) ==
    \/ \E i \in 1..Len(w) : w[i] \in {NL, CR, TAB}
    \/ \E i \in 1..(Len(w) - 1) : w[i] = SP /\ w[i + 1] = SP

ValidSingleChars == {"a", "A", "i", "I"}

Count(m, w) ==
    IF w \in DOMAIN m THEN m[w] ELSE 0

RECURSIVE RecordMisspelledWord(_, _)
RECURSIVE RecordEach(_, _)
RecordEach(s, words) ==
    IF words = <<>> THEN s
    ELSE RecordEach(RecordMisspelledWord(s, Head(words)), Tail(words))

\* RecordMisspelledWord that appends the word to the order list every time
RecordMisspelledWordAppendsAlways(s, rawWord) ==
    LET word == TrimSpace(rawWord)
    IN  IF word = <<>> THEN s
        ELSE IF NeedsSplit(word) THEN RecordEach(s, Fields(word))
        ELSE IF Len(word) = 1 /\ word[1] \notin ValidSingleChars THEN s
        ELSE [s EXCEPT
               !.misspelledOrder = Append(@, word),
               !.misspelledWords =
                   [w \in DOMAIN @ \cup {word} |->
                       IF w = word THEN Count(@, word) + 1 ELSE @[w]] ]

RecordMisspelledWord(s, rawWord) ==
    LET word == TrimSpace(rawWord)
    IN  IF word = <<>> THEN s
        ELSE IF NeedsSplit(word) THEN RecordEach(s, Fields(word))
        ELSE IF Len(word) = 1 /\ word[1] \notin ValidSingleChars THEN s
        ELSE [s EXCEPT
               !.misspelledOrder =
                   IF Count(s.misspelledWords, word) = 0 THEN Append(@, word) ELSE @,
               !.misspelledWords =
                   [w \in DOMAIN @ \cup {word} |->
                       IF w = word THEN Count(@, word) + 1 ELSE @[w]] ]

\* Stats.RestoreFromSession
RestoreFromSession(s, startTime, totalKeystrokes, correctKeystrokes, misspelledWords, misspelledOrder, wordHadError) ==
    [s EXCEPT !.startTime = startTime,
              !.totalKeystrokes = totalKeystrokes,
              !.correctKeystrokes = correctKeystrokes,
              !.misspelledWords = misspelledWords,
              !.misspelledOrder = misspelledOrder,
              !.wordHadError = wordHadError,
              !.testComplete = FALSE]

\* A float64 result is the exact quotient num/den of two integers, den > 0;
\* the rounding of float64 keeps both the order and the zero of the quotients
Ratio(num, den) ==
    [num |-> num, den |-> den]

RatioLeq(x, y) ==
    x.num * y.den <= y.num * x.den

RatioEq(x, y) ==
    x.num * y.den = y.num * x.den

\* GetAccuracy without the default for zero keystrokes
GetAccuracyNoDefault(s) ==
    IF s.totalKeystrokes = 0 THEN Ratio(0, 1)
    ELSE Ratio(s.correctKeystrokes * 100, s.totalKeystrokes)

\* GetAccuracy, in percent
GetAccuracy(s) ==
    IF s.totalKeystrokes = 0 THEN Ratio(100, 1)
    ELSE Ratio(s.correctKeystrokes * 100, s.totalKeystrokes)

\* GetWPM without the minimum of one second
GetWPMNoMinimum(s, t) ==
    IF s.startTime = 0 THEN Ratio(0, 1)
    ELSE LET duration == IF s.testComplete THEN s.endTime - s.startTime
                         ELSE t - s.startTime
         IN  IF duration <= 0 THEN Ratio(0, 1)
             ELSE Ratio(s.correctKeystrokes * 60 * TicksPerSecond,
                        CharsPerWord * duration)

\* GetWPM at time t: words per minute over the duration, in ticks, of the test
GetWPM(s, t) ==
    IF s.startTime = 0 THEN Ratio(0, 1)
    ELSE LET duration == IF s.testComplete THEN s.endTime - s.startTime
                         ELSE t - s.startTime
         IN  IF duration < TicksPerSecond THEN Ratio(0, 1)
             ELSE Ratio(s.correctKeystrokes * 60 * TicksPerSecond,
                        CharsPerWord * duration)

-----------------------------------------------------------------------------
\* TypingTest (internal/typingtest.go).  An engine value e is a record of the
\* struct's fields; each method is an operator from the engine before the call
\* to the engine after it (and the value returned, where there is one).

NewTypingTest(sampleText) ==
    [ sampleRunes |-> sampleText, userRunes |-> <<>>, cursorPos |-> 0,
      wordStart |-> 0, stats |-> NewStats, finished |-> FALSE ]

\* sampleRunes[from:to]
Slice(runes, from, to) ==
    SubSeq(runes, from + 1, to)

finishWord(e, wordEnd) ==
    IF WordHadError(e.stats, e.wordStart)
    THEN [e EXCEPT !.stats =
            RecordMisspelledWord(@, Slice(e.sampleRunes, e.wordStart, wordEnd))]
    ELSE e

\* checkCompletion with the end test one past the end: the test never completes
checkCompletionPastEnd(e, t) ==
    IF e.cursorPos > Len(e.sampleRunes)
    THEN [e EXCEPT !.stats = Finish(@, t), !.finished = TRUE]
    ELSE e

checkCompletion(e, t) ==
    IF e.cursorPos >= Len(e.sampleRunes)
    THEN LET e1 == IF e.wordStart < Len(e.sampleRunes)
                      /\ WordHadError(e.stats, e.wordStart)
                   THEN [e EXCEPT !.stats =
                           RecordMisspelledWord(@,
                               Slice(e.sampleRunes, e.wordStart, Len(e.sampleRunes)))]
                   ELSE e
         IN  [e1 EXCEPT !.stats = Finish(@, t), !.finished = TRUE]
    ELSE e

\* Keystroke that advances the cursor and forgets to append the typed rune
KeystrokeDropsRune(e, typedChar, t) ==
    LET expectedChar == e.sampleRunes[e.cursorPos + 1]
        correct == expectedChar = typedChar
        s1 == RecordKeystroke(Start(e.stats, t), correct, t)
        s2 == IF ~correct THEN MarkCurrentWordAsError(s1, e.wordStart) ELSE s1
    IN  [e EXCEPT !.stats = s2, !.cursorPos = @ + 1]

\* Keystroke where a correct keystroke takes the word's flag back
KeystrokeClearsFlag(e, typedChar, t) ==
    LET expectedChar == e.sampleRunes[e.cursorPos + 1]
        correct == expectedChar = typedChar
        s1 == RecordKeystroke(Start(e.stats, t), correct, t)
        s2 == IF ~correct THEN MarkCurrentWordAsError(s1, e.wordStart)
              ELSE [s1 EXCEPT !.wordHadError = @ \ {e.wordStart}]
    IN  [e EXCEPT !.stats = s2,
                  !.userRunes = Append(@, typedChar),
                  !.cursorPos = @ + 1]

\* TypeCharacter and TypeNewline up to the word boundary: the keystroke is
\* recorded, the word flagged, the rune appended, the cursor advanced
Keystroke(e, typedChar, t) ==
    LET expectedChar == e.sampleRunes[e.cursorPos + 1]
        correct == expectedChar = typedChar
        s1 == RecordKeystroke(Start(e.stats, t), correct, t)
        s2 == IF ~correct THEN MarkCurrentWordAsError(s1, e.wordStart) ELSE s1
    IN  [e EXCEPT !.stats = s2,
                  !.userRunes = Append(@, typedChar),
                  !.cursorPos = @ + 1]

MarkFinished(e, t) ==
    IF ~e.finished
    THEN [e EXCEPT !.stats = Finish(@, t), !.finished = TRUE]
    ELSE e

\* Reset that keeps the Stats of the test before
ResetKeepsStats(e) ==
    [e EXCEPT !.userRunes = <<>>, !.cursorPos = 0, !.wordStart = 0,
              !.finished = FALSE]

Reset(e) ==
    [e EXCEPT !.userRunes = <<>>, !.cursorPos = 0, !.wordStart = 0,
              !.stats = NewStats, !.finished = FALSE]

SetSampleText(e, text) ==
    Reset([e EXCEPT !.sampleRunes = text])

\* TypeCharacter that counts the keystroke before it tests for the end of text
TypeCharacterCountsAtEnd(e, typedChar, t) ==
    IF e.cursorPos >= Len(e.sampleRunes)
    THEN [engine |-> [e EXCEPT !.stats = RecordKeystroke(Start(@, t), FALSE, t)],
          ret |-> "false"]
    ELSE LET e1 == Keystroke(e, typedChar, t)
             e2 == IF typedChar = SP /\ e1.wordStart < e1.cursorPos - 1
                   THEN [finishWord(e1, e1.cursorPos - 1) EXCEPT
                           !.wordStart = e1.cursorPos]
                   ELSE e1
         IN  [engine |-> checkCompletion(e2, t), ret |-> "true"]

\* TypeCharacter that finalizes a word and leaves wordStart where it was
TypeCharacterKeepsWordStart(e, typedChar, t) ==
    IF e.cursorPos >= Len(e.sampleRunes)
    THEN [engine |-> e, ret |-> "false"]
    ELSE LET e1 == Keystroke(e, typedChar, t)
             e2 == IF typedChar = SP /\ e1.wordStart < e1.cursorPos - 1
                   THEN finishWord(e1, e1.cursorPos - 1)
                   ELSE e1
         IN  [engine |-> checkCompletion(e2, t), ret |-> "true"]

TypeCharacter(e, typedChar, t) ==
    IF e.cursorPos >= Len(e.sampleRunes)
    THEN [engine |-> e, ret |-> "false"]
    ELSE LET e1 == Keystroke(e, typedChar, t)
             e2 == IF typedChar = SP /\ e1.wordStart < e1.cursorPos - 1
                   THEN [finishWord(e1, e1.cursorPos - 1) EXCEPT
                           !.wordStart = e1.cursorPos]
                   ELSE e1
         IN  [engine |-> checkCompletion(e2, t), ret |-> "true"]

\* TypeNewline that moves wordStart under the guard of the typed space
TypeNewlineGuarded(e, t) ==
    IF e.cursorPos >= Len(e.sampleRunes)
    THEN [engine |-> e, ret |-> "false"]
    ELSE LET e1 == Keystroke(e, NL, t)
             e2 == IF e1.wordStart < e1.cursorPos - 1
                   THEN [finishWord(e1, e1.cursorPos - 1) EXCEPT
                           !.wordStart = e1.cursorPos]
                   ELSE e1
         IN  [engine |-> checkCompletion(e2, t), ret |-> "true"]

TypeNewline(e, t) ==
    IF e.cursorPos >= Len(e.sampleRunes)
    THEN [engine |-> e, ret |-> "false"]
    ELSE LET e1 == Keystroke(e, NL, t)
             e2 == IF e1.wordStart < e1.cursorPos - 1
                   THEN finishWord(e1, e1.cursorPos - 1)
                   ELSE e1
             e3 == [e2 EXCEPT !.wordStart = e1.cursorPos]
         IN  [engine |-> checkCompletion(e3, t), ret |-> "true"]

\* the loop of Backspace: walk wordStart back to the rune after a space
RECURSIVE WalkBack(_, _)
WalkBack(sample, ws) ==
    IF ws > 0 /\ sample[ws] # SP THEN WalkBack(sample, ws - 1) ELSE ws

\* Backspace that moves the cursor and leaves the typed runes as they are
BackspaceKeepsInput(e) ==
    IF e.cursorPos <= 0 THEN e
    ELSE [e EXCEPT !.cursorPos = @ - 1]

Backspace(e) ==
    IF e.cursorPos <= 0 THEN e
    ELSE LET cp == e.cursorPos - 1
         IN  [e EXCEPT
               !.cursorPos = cp,
               !.userRunes = IF Len(@) > 0 THEN SubSeq(@, 1, Len(@) - 1) ELSE @,
               !.wordStart =
                   IF cp < Len(e.sampleRunes) /\ e.sampleRunes[cp + 1] = SP
                   THEN WalkBack(e.sampleRunes, @)
                   ELSE @ ]

\* the loop of RestoreState: the index after the nearest space or newline before i
RECURSIVE FindWordStart(_, _)
FindWordStart(sample, i) ==
    IF i < 0 THEN 0
    ELSE IF sample[i + 1] = SP \/ sample[i + 1] = NL THEN i + 1
    ELSE FindWordStart(sample, i - 1)

\* the loop of RestoreState reads sampleRunes[cursorPos-1] first: out of range,
\* the index expression panics
RestorePanics(e, pos) ==
    pos >= 1 /\ pos - 1 >= Len(e.sampleRunes)

\* RestoreState; where it panics, the fields assigned before the loop
RestoreState(e, userInput, pos) ==
    LET e1 == [e EXCEPT !.userRunes = userInput, !.cursorPos = pos,
                        !.wordStart = 0]
    IN  IF RestorePanics(e, pos) THEN e1
        ELSE [e1 EXCEPT !.wordStart = FindWordStart(e.sampleRunes, pos - 1),
                        !.finished = FALSE,
                        !.stats = NewStats]

-----------------------------------------------------------------------------
\* Layout (renderer.go) and the typing screen (app.go)

\* Go's integer division truncates toward zero
GoDiv(a, b) ==
    IF a >= 0 THEN a \div b ELSE -((-a) \div b)

\* the break point of wrapText: behind the last space of the line, or the
\* whole line when it holds no space
breakPoint(currentLine) ==
    LET spaces == { i \in 1..Len(currentLine) : currentLine[i] = SP }
    IN  IF spaces = {} THEN Len(currentLine)
        ELSE CHOOSE i \in spaces : \A j \in spaces : j <= i

\* the loop of wrapText from the i-th rune of the text on
RECURSIVE wrapLoop(_, _, _, _, _)
wrapLoop(text, i, maxWidth, lines, currentLine) ==
    IF i > Len(text)
    THEN IF Len(currentLine) > 0 THEN Append(lines, currentLine) ELSE lines
    ELSE LET ch == text[i]
         IN  IF ch = NL
             THEN wrapLoop(text, i + 1, maxWidth,
                           Append(lines, Append(currentLine, ch)), <<>>)
             ELSE IF Len(currentLine) >= maxWidth
             THEN LET bp == breakPoint(currentLine)
                  IN  wrapLoop(text, i + 1, maxWidth,
                               Append(lines, SubSeq(currentLine, 1, bp)),
                               Append(SubSeq(currentLine, bp + 1, Len(currentLine)), ch))
             ELSE wrapLoop(text, i + 1, maxWidth, lines, Append(currentLine, ch))

\* wrapText that strips the newline from the lines of the hard breaks
wrapTextDropsNewlines(text, maxWidth) ==
    LET lines == wrapLoop(text, 1, maxWidth, <<>>, <<>>)
    IN  [ i \in 1..Len(lines) |-> SelectSeq(lines[i], LAMBDA ch : ch # NL) ]

\* wrapText: the lines, each a sequence of runes
wrapText(text, maxWidth) ==
    wrapLoop(text, 1, maxWidth, <<>>, <<>>)

\* the loop of CalculateCursorLine from line lineIdx (0-based) on
RECURSIVE cursorLineLoop(_, _, _, _)
cursorLineLoop(lines, lineIdx, charCount, pos) ==
    IF lineIdx >= Len(lines)
    THEN IF Len(lines) > 0 THEN Len(lines) - 1 ELSE 0
    ELSE LET lineLen == Len(lines[lineIdx + 1])
         IN  IF charCount + lineLen > pos THEN lineIdx
             ELSE cursorLineLoop(lines, lineIdx + 1, charCount + lineLen, pos)

\* CalculateCursorLine that counts the cursor position from 1
CalculateCursorLineFromOne(text, pos, maxWidth) ==
    IF pos < 0 THEN 0
    ELSE cursorLineLoop(wrapText(text, maxWidth), 0, 1, pos)

CalculateCursorLine(text, pos, maxWidth) ==
    IF pos < 0 THEN 0
    ELSE cursorLineLoop(wrapText(text, maxWidth), 0, 0, pos)

\* CalculateScrollLine without the clamp to maxScroll
CalculateScrollLineNoClamp(cursorLine, maxVisibleLines, totalLines) ==
    IF totalLines <= maxVisibleLines THEN 0
    ELSE LET third == GoDiv(maxVisibleLines, 3)
             maxCursorPosition == maxVisibleLines - minBufferBelow - 1
             desiredCursorPosition ==
                 IF third > maxCursorPosition THEN maxCursorPosition ELSE third
             scrollLine == cursorLine - desiredCursorPosition
         IN  IF scrollLine < 0 THEN 0 ELSE scrollLine

CalculateScrollLine(cursorLine, maxVisibleLines, totalLines) ==
    IF totalLines <= maxVisibleLines THEN 0
    ELSE LET third == GoDiv(maxVisibleLines, 3)
             maxCursorPosition == maxVisibleLines - minBufferBelow - 1
             desiredCursorPosition ==
                 IF third > maxCursorPosition THEN maxCursorPosition ELSE third
             scrollLine == cursorLine - desiredCursorPosition
             clamped == IF scrollLine < 0 THEN 0 ELSE scrollLine
             maxScroll == totalLines - maxVisibleLines
         IN  IF clamped > maxScroll THEN maxScroll ELSE clamped

\* the maxWidth of drawTypingScreen
appMaxWidth(width) ==
    IF width - widthMargin < minWrapWidth THEN width ELSE width - widthMargin

\* the maxWidth of DrawTypingView
drawMaxWidth(width) ==
    IF width - drawWidthMargin < minWrapWidth THEN width ELSE width - drawWidthMargin

\* availableHeight / 2, of both drawTypingScreen and DrawTypingView
visibleLines(height) ==
    GoDiv(height - heightMargin, rowsPerLine)

\* DrawTypingView in text mode: the lines it hands to drawTypingText and the
\* line it starts with
DrawTypingView(data, size) ==
    LET lines == wrapText(data.SampleRunes, drawMaxWidth(size.width))
        low == IF data.ScrollLine < 0 THEN 0 ELSE data.ScrollLine
    IN  [ maxWidth |-> drawMaxWidth(size.width),
          lines |-> lines,
          maxVisibleLines |-> visibleLines(size.height),
          scrollLine |-> IF low > Len(lines) - 1 THEN Len(lines) - 1 ELSE low ]

\* drawTypingScreen in text mode: what it computes, and what the draw pass
\* computes from the view data
drawTypingScreen(e, size) ==
    LET maxWidth == appMaxWidth(size.width)
        maxVisibleLines == visibleLines(size.height)
        cursorLine == CalculateCursorLine(e.sampleRunes, e.cursorPos, maxWidth)
        lines == wrapText(e.sampleRunes, maxWidth)
        scrollLine == CalculateScrollLine(cursorLine, maxVisibleLines, Len(lines))
    IN  [ maxWidth |-> maxWidth,
          maxVisibleLines |-> maxVisibleLines,
          cursorLine |-> cursorLine,
          lines |-> lines,
          totalLines |-> Len(lines),
          scrollLine |-> scrollLine,
          view |-> DrawTypingView([SampleRunes |-> e.sampleRunes,
                                   CursorPos |-> e.cursorPos,
                                   ScrollLine |-> scrollLine], size) ]

\* App.draw: the typing screen, or the results screen once showResults is set;
\* the frame is <<>> while the typing screen is not on display
draw(e, size) ==
    IF e.finished THEN <<>> ELSE <<drawTypingScreen(e, size)>>

-----------------------------------------------------------------------------
\* The WPM graph of the results screen (internal/renderer.go)

\* the loop over the snapshots that finds the largest WPM, from history[0]
RECURSIVE maxWPMLoop(_, _, _)
maxWPMLoop(history, i, maxWPM) ==
    IF i > Len(history) THEN maxWPM
    ELSE maxWPMLoop(history, i + 1,
                    IF history[i].WPM > maxWPM THEN history[i].WPM ELSE maxWPM)

\* float64(int(maxWPM/25)+1) * 25, and 25 at least
roundUpToGrid(maxWPM) ==
    LET rounded == (GoDiv(maxWPM, gridStep) + 1) * gridStep
    IN  IF rounded < gridStep THEN gridStep ELSE rounded

\* what drawWPMGraph computes of its Y axis: nothing for a graph too small or a
\* history too short
drawWPMGraph(width, height, history) ==
    IF Len(history) < minGraphHistory \/ width < minGraphWidth
                                      \/ height < minGraphHeight
    THEN <<>>
    ELSE LET observed == maxWPMLoop(history, 1, history[1].WPM)
             maxWPM == roundUpToGrid(observed)
         IN  <<[history |-> history, observed |-> observed, minWPM |-> 0,
                maxWPM |-> maxWPM, numLabels |-> GoDiv(maxWPM, gridStep) + 1]>>

\* the graph of drawResultsContent, for a timeline of more than one snapshot
drawResultsContent(boxWidth, history) ==
    IF Len(history) > 1
    THEN drawWPMGraph(boxWidth - resultsGraphMargin, resultsGraphHeight, history)
    ELSE <<>>

-----------------------------------------------------------------------------
\* Saving and restoring a session (app.go, session.go, textlib.go)

\* runes Go's unicode.IsSpace does not know but NormalizeWhitespace replaces
ZeroWidth == {"zwsp"}

\* NormalizeWhitespace without the case of the zero-width runes
RECURSIVE NormalizeWhitespaceNoZeroWidth(_)
NormalizeWhitespaceNoZeroWidth(text) ==
    IF text = <<>> THEN <<>>
    ELSE LET r == Head(text)
             rest == NormalizeWhitespaceNoZeroWidth(Tail(text))
         IN  IF r \in {SP, TAB, NL} THEN <<r>> \o rest
             ELSE IF r = CR THEN rest
             ELSE IF IsSpace(r) THEN <<SP>> \o rest
             ELSE <<r>> \o rest

RECURSIVE NormalizeWhitespace(_)
NormalizeWhitespace(text) ==
    IF text = <<>> THEN <<>>
    ELSE LET r == Head(text)
             rest == NormalizeWhitespace(Tail(text))
         IN  IF r \in {SP, TAB, NL} THEN <<r>> \o rest
             ELSE IF r = CR THEN rest
             ELSE IF r \in ZeroWidth THEN <<SP>> \o rest
             ELSE IF IsSpace(r) THEN <<SP>> \o rest
             ELSE <<r>> \o rest

\* fmt.Sprintf("%d", pos): the decimal digits of pos
RECURSIVE FormatInt(_)
FormatInt(n) ==
    IF n < 10 THEN <<n>> ELSE FormatInt(n \div 10) \o <<n % 10>>

\* fmt.Sscanf(posStr, "%d", &pos)
RECURSIVE ParseInt(_)
ParseInt(digits) ==
    IF digits = <<>> THEN 0
    ELSE 10 * ParseInt(SubSeq(digits, 1, Len(digits) - 1)) + digits[Len(digits)]

\* GetStatsStartTime: "" for the zero time, else RFC3339, which keeps whole seconds
GetStatsStartTime(e) ==
    IF e.stats.startTime = 0 THEN <<>> ELSE <<e.stats.startTime \div TicksPerSecond>>

\* time.Parse(time.RFC3339, startTimeStr)
ParseTime(str) ==
    str[1] * TicksPerSecond

\* GetWordErrorsMap: the keys of the map[string]int, every value being 1
GetWordErrorsMap(e) ==
    { FormatInt(pos) : pos \in e.stats.wordHadError }

\* the Session that Run builds, as SaveSession writes it
SaveSession(e) ==
    [ TextContent |-> NormalizeWhitespace(e.sampleRunes),
      UserInput |-> e.userRunes,
      CursorPos |-> e.cursorPos,
      StartTime |-> GetStatsStartTime(e),
      TotalKeystrokes |-> e.stats.totalKeystrokes,
      CorrectKeystrokes |-> e.stats.correctKeystrokes,
      MisspelledWords |-> e.stats.misspelledWords,
      MisspelledOrder |-> e.stats.misspelledOrder,
      WordHadError |-> GetWordErrorsMap(e) ]

\* LoadSession: the record read back
LoadSession(rec) ==
    [rec EXCEPT !.TextContent = NormalizeWhitespace(@)]

\* a start_time of the session file that is no RFC3339 time
BadTime == <<-1>>

\* time.Parse(time.RFC3339, startTimeStr) returns an error
ParseTimeFails(str) ==
    str # <<>> /\ str[1] < 0

\* RestoreStatsFromSession returns an error: the start time does not parse
RestoreStatsError(rec) ==
    ParseTimeFails(rec.StartTime)

\* RestoreStatsFromSession with the persisted counters exchanged
RestoreStatsSwapsCounters(e, rec) ==
    IF RestoreStatsError(rec) THEN e
    ELSE [e EXCEPT !.stats =
           [@ EXCEPT
             !.startTime = IF rec.StartTime # <<>> THEN ParseTime(rec.StartTime) ELSE 0,
             !.totalKeystrokes = rec.CorrectKeystrokes,
             !.correctKeystrokes = rec.TotalKeystrokes,
             !.misspelledWords = rec.MisspelledWords,
             !.misspelledOrder = rec.MisspelledOrder,
             !.wordHadError = { ParseInt(k) : k \in rec.WordHadError },
             !.testComplete = FALSE ]]

\* RestoreStatsFromSession and Stats.RestoreFromSession; on a parse error the
\* method returns before it touches the stats
RestoreStatsFromSession(e, rec) ==
    IF RestoreStatsError(rec) THEN e
    ELSE [e EXCEPT !.stats =
           [@ EXCEPT
             !.startTime = IF rec.StartTime # <<>> THEN ParseTime(rec.StartTime) ELSE 0,
             !.totalKeystrokes = rec.TotalKeystrokes,
             !.correctKeystrokes = rec.CorrectKeystrokes,
             !.misspelledWords = rec.MisspelledWords,
             !.misspelledOrder = rec.MisspelledOrder,
             !.wordHadError = { ParseInt(k) : k \in rec.WordHadError },
             !.testComplete = FALSE ]]

\* the session file after the end of Run
\* the end of Run that saves the session of a finished test as well
SessionAtQuitSavesFinished(e, file) ==
    IF e.cursorPos > 0 THEN <<SaveSession(e)>>
    ELSE file

SessionAtQuit(e, file) ==
    IF e.finished THEN <<>>
    ELSE IF e.cursorPos > 0 THEN <<SaveSession(e)>>
    ELSE file

-----------------------------------------------------------------------------
\* The state machine

Engine ==
    [ sampleRunes |-> sampleRunes, userRunes |-> userRunes, cursorPos |-> cursorPos,
      wordStart |-> wordStart, stats |-> stats, finished |-> finished ]

SetEngine(e) ==
    /\ sampleRunes' = e.sampleRunes
    /\ userRunes' = e.userRunes
    /\ cursorPos' = e.cursorPos
    /\ wordStart' = e.wordStart
    /\ stats' = e.stats
    /\ finished' = e.finished

\* the App in text mode: NewApp sets settings.Mode to "text" when it takes a
\* text of the library; the limits and the word set are not looked at
textMode ==
    [mode |-> "text", limitType |-> "time", timeLimit |-> defaultTimeLimit,
     wordLimit |-> defaultWordLimit, testStarted |-> 0, lastCheckPosition |-> 0,
     showResults |-> FALSE, words |-> <<>>]

\* the terminal before its size is looked at, and Run before it is called
defaultSize ==
    [width |-> 0, height |-> 0]

notRunning ==
    [loop |-> "idle", poller |-> "idle", polled |-> <<>>, received |-> <<>>,
     quit |-> FALSE, quitEventLoop |-> FALSE]

Init ==
    /\ phase = "running"
    /\ \E text \in Texts :
         LET e == NewTypingTest(text)
         IN  /\ sampleRunes = e.sampleRunes
             /\ userRunes = e.userRunes
             /\ cursorPos = e.cursorPos
             /\ wordStart = e.wordStart
             /\ stats = e.stats
             /\ finished = e.finished
    /\ now = TicksPerSecond
    /\ session = <<>>
    /\ ret = "void"
    /\ mistyped = {}
    /\ restored = FALSE
    /\ screenSize = defaultSize
    /\ frame = <<>>
    /\ run = notRunning
    /\ app = textMode

\* an incorrect keystroke at the cursor adds its position to the history
Mistyped(typedChar) ==
    IF cursorPos < Len(sampleRunes)
       /\ stats.totalKeystrokes < MaxKeys
       /\ sampleRunes[cursorPos + 1] # typedChar
    THEN mistyped \cup {cursorPos}
    ELSE mistyped

\* TypingInputHandler.HandleRune: a rune key
HandleRune(r) ==
    /\ phase = "running"
    /\ cursorPos < Len(sampleRunes) => stats.totalKeystrokes < MaxKeys
    /\ LET res == TypeCharacter(Engine, r, now)
       IN  /\ SetEngine(res.engine)
           /\ ret' = res.ret
    /\ mistyped' = Mistyped(r)
    /\ UNCHANGED <<appVars, phase, now, session, restored>>

\* TypingInputHandler.HandleEnter: the Enter key
HandleEnter ==
    /\ phase = "running"
    /\ cursorPos < Len(sampleRunes) => stats.totalKeystrokes < MaxKeys
    /\ LET res == TypeNewline(Engine, now)
       IN  /\ SetEngine(res.engine)
           /\ ret' = res.ret
    /\ mistyped' = Mistyped(NL)
    /\ UNCHANGED <<appVars, phase, now, session, restored>>

\* HandleBackspace that writes the session file
HandleBackspaceSaves ==
    /\ phase = "running"
    /\ SetEngine(Backspace(Engine))
    /\ session' = <<SaveSession(Backspace(Engine))>>
    /\ ret' = "void"
    /\ UNCHANGED <<appVars, phase, now, histVars>>

\* TypingInputHandler.HandleBackspace; Backspace returns nothing
HandleBackspace ==
    /\ phase = "running"
    /\ SetEngine(Backspace(Engine))
    /\ ret' = "void"
    /\ UNCHANGED <<appVars, phase, now, session, histVars>>

\* the word or time limit of word mode is reached: handleKey calls MarkFinished
LimitReached ==
    /\ phase = "running"
    /\ SetEngine(MarkFinished(Engine, now))
    /\ ret' = "void"
    /\ UNCHANGED <<appVars, phase, now, session, histVars>>

\* App.restartTest: Reset, then ClearSession
restartTest ==
    /\ phase = "running"
    /\ SetEngine(Reset(Engine))
    /\ session' = <<>>
    /\ ret' = "void"
    /\ mistyped' = {}
    /\ restored' = FALSE
    /\ UNCHANGED <<appVars, phase, now>>

\* App.selectTextByName, selectRandomText, selectWordSet: SetSampleText, then
\* ClearSession
selectText(text) ==
    /\ phase = "running"
    /\ SetEngine(SetSampleText(Engine, text))
    /\ session' = <<>>
    /\ ret' = "void"
    /\ mistyped' = {}
    /\ restored' = FALSE
    /\ UNCHANGED <<appVars, phase, now>>

\* the end of Run: the loop has been left, the session is saved or cleared
Quit ==
    /\ phase = "running"
    /\ phase' = "exited"
    /\ session' = SessionAtQuit(Engine, session)
    /\ UNCHANGED <<appVars, engineVars, now, ret, histVars>>

\* NewApp with a session to restore: LoadSession, NewTypingTest, RestoreState,
\* RestoreStatsFromSession; a panic of RestoreState ends the process
NewApp ==
    /\ phase = "exited"
    /\ session # <<>>
    /\ LET rec == LoadSession(session[1])
           e0 == NewTypingTest(rec.TextContent)
           e1 == RestoreState(e0, rec.UserInput, rec.CursorPos)
       IN  IF RestorePanics(e0, rec.CursorPos)
           THEN /\ phase' = "crashed"
                /\ SetEngine(e1)
           ELSE /\ phase' = "running"
                /\ SetEngine(RestoreStatsFromSession(e1, rec))
    /\ restored' = TRUE
    /\ ret' = "void"
    /\ UNCHANGED <<appVars, now, session, mistyped>>

\* the session file is read as it is found: between the first run and the next
\* its start_time may have become text that time.Parse rejects
DamageSession ==
    /\ phase = "exited"
    /\ session # <<>>
    /\ ~restored
    /\ session[1].StartTime # BadTime
    /\ session' = <<[session[1] EXCEPT !.StartTime = BadTime]>>
    /\ UNCHANGED <<appVars, phase, engineVars, now, ret, histVars>>

\* The accessors of Stats that return a collection: the value returned, and the
\* field of the Stats whose storage the value shares ("none" for a copy)
GetWPMHistory(s) ==
    [value |-> s.wpmHistory, shares |-> "none"]

GetErrorTimestamps(s) ==
    [value |-> s.errorTimestamps, shares |-> "none"]

GetMisspelledWordsMap(s) ==
    [value |-> s.misspelledWords, shares |-> "none"]

StatsGetWordErrorsMap(s) ==
    [value |-> s.wordHadError, shares |-> "none"]

\* return s.misspelledOrder: the slice header of the field itself
GetMisspelledWords(s) ==
    [value |-> s.misspelledOrder, shares |-> "misspelledOrder"]

Accessors ==
    {"GetWPMHistory", "GetErrorTimestamps", "GetMisspelledWordsMap",
     "GetWordErrorsMap", "GetMisspelledWords"}

Returned(name, s) ==
    CASE name = "GetWPMHistory" -> GetWPMHistory(s)
      [] name = "GetErrorTimestamps" -> GetErrorTimestamps(s)
      [] name = "GetMisspelledWordsMap" -> GetMisspelledWordsMap(s)
      [] name = "GetWordErrorsMap" -> StatsGetWordErrorsMap(s)
      [] name = "GetMisspelledWords" -> GetMisspelledWords(s)

\* what a caller writes into the elements of a slice it was handed
CallerWord == <<"x">>

\* a caller of the accessor overwrites the elements of the value it got: the
\* write reaches the Stats where the value shares the storage of a field
CallerMutates(name) ==
    /\ phase = "running"
    /\ LET r == Returned(name, stats)
       IN  stats' = IF r.shares = "misspelledOrder"
                    THEN [stats EXCEPT !.misspelledOrder =
                            [i \in 1..Len(r.value) |-> CallerWord]]
                    ELSE stats
    /\ UNCHANGED <<appVars, phase, sampleRunes, userRunes, cursorPos, wordStart, finished,
                   now, session, ret, histVars>>

\* time passes
Tick ==
    /\ now < MaxTime
    /\ now' = now + 1
    /\ UNCHANGED <<appVars, phase, engineVars, session, ret, histVars>>

\* the engine under any caller: every call of its API, and the clock
Next ==
    \/ \E r \in TypedRunes : HandleRune(r)
    \/ HandleEnter
    \/ HandleBackspace
    \/ LimitReached
    \/ restartTest
    \/ \E text \in Texts : selectText(text)
    \/ Tick

Spec == Init /\ [][Next]_vars

\* A Stats driven on its own, as the tests of stats.go drive it

\* stats.Start()
StatsStart ==
    /\ stats' = Start(stats, now)
    /\ UNCHANGED <<appVars, phase, sampleRunes, userRunes, cursorPos, wordStart, finished,
                   now, session, ret, histVars>>

\* stats.RecordKeystroke(correct)
StatsRecord(correct) ==
    /\ stats.totalKeystrokes < MaxStatsKeys
    /\ stats' = RecordKeystroke(stats, correct, now)
    /\ UNCHANGED <<appVars, phase, sampleRunes, userRunes, cursorPos, wordStart, finished,
                   now, session, ret, histVars>>

\* stats.Finish()
StatsFinish ==
    /\ ~stats.testComplete
    /\ stats' = Finish(stats, now)
    /\ UNCHANGED <<appVars, phase, sampleRunes, userRunes, cursorPos, wordStart, finished,
                   now, session, ret, histVars>>

\* the persisted start times and counters a Stats is restored from: no start
\* time or second 1, no keystrokes or two of which one was correct
RestoredStartTimes == {0, TicksPerSecond}
RestoredCounters == {<<0, 0>>, <<2, 1>>}

\* stats.RestoreFromSession on the Stats that RestoreState has just made
StatsRestore ==
    /\ stats = NewStats
    /\ \E st \in RestoredStartTimes, c \in RestoredCounters :
         /\ c # <<0, 0>> \/ st # 0
         /\ stats' = RestoreFromSession(stats, st, c[1], c[2],
                                        [w \in {} |-> 0], <<>>, {})
    /\ UNCHANGED <<appVars, phase, sampleRunes, userRunes, cursorPos, wordStart, finished,
                   now, session, ret, histVars>>

\* time.Sleep: one tick or a second while the clock is early, and from there
\* one sleep of the retention horizon
ShortSleeps == {1, TicksPerSecond}
LongSleep == CleanupHorizonSec * TicksPerSecond
SleepTicks == ShortSleeps \cup {LongSleep}

Sleep(d) ==
    /\ IF d = LongSleep
       THEN now <= MaxStatsSec * TicksPerSecond
       ELSE now + d <= MaxStatsSec * TicksPerSecond
    /\ now' = now + d
    /\ UNCHANGED <<appVars, phase, engineVars, session, ret, histVars>>

InitStats ==
    /\ Init
    /\ sampleRunes = EmptyText

NextStats ==
    \/ StatsStart
    \/ \E correct \in BOOLEAN : StatsRecord(correct)
    \/ StatsFinish
    \/ StatsRestore
    \/ \E d \in SleepTicks : Sleep(d)

SpecStats == InitStats /\ [][NextStats]_vars

\* the engine and a caller that writes into what the accessors return
NextCaller ==
    \/ Next
    \/ \E name \in Accessors : CallerMutates(name)

SpecCaller == Init /\ [][NextCaller]_vars

\* the keys reach the engine only while the results are not shown, that is
\* while the test is not finished
TypingMode ==
    ~finished

\* the application across runs: typing, restart, quit, and the next start
NextSession ==
    \/ TypingMode /\ \E r \in TypedRunes : HandleRune(r)
    \/ TypingMode /\ HandleEnter
    \/ TypingMode /\ HandleBackspace
    \/ restartTest
    \/ Quit
    \/ NewApp
    \/ Tick

SpecSession == Init /\ [][NextSession]_vars

\* the application up to its first restore, with a session file that may come
\* back damaged
NextDamaged ==
    \/ ~restored /\ NextSession
    \/ DamageSession

SpecDamaged == Init /\ [][NextDamaged]_vars

\* The typing screen on its own: the handlers of the loop of Run one after
\* another, each ending with a draw

KeyEscape == "Escape"
KeyBackspace == "Backspace"
KeyEnter == "Enter"

\* App.handleKey in text mode, the command menu closed: the results are on
\* show exactly when the test is finished
handleKey(e, key, t) ==
    IF e.finished
    THEN IF key = KeyEscape
         THEN [engine |-> e, ret |-> "void", quit |-> TRUE, restart |-> FALSE]
         ELSE IF key = KeyEnter
         THEN [engine |-> Reset(e), ret |-> "void", quit |-> FALSE, restart |-> TRUE]
         ELSE [engine |-> e, ret |-> "void", quit |-> FALSE, restart |-> FALSE]
    ELSE IF key = KeyEscape
         THEN [engine |-> e, ret |-> "void", quit |-> TRUE, restart |-> FALSE]
         ELSE IF key = KeyBackspace
         THEN [engine |-> Backspace(e), ret |-> "void", quit |-> FALSE,
               restart |-> FALSE]
         ELSE LET res == IF key = KeyEnter THEN TypeNewline(e, t)
                         ELSE TypeCharacter(e, key, t)
              IN  [engine |-> res.engine, ret |-> res.ret, quit |-> FALSE,
                   restart |-> FALSE]

\* the rune a key types, if it types one
TypedBy(key) ==
    IF key = KeyEnter THEN <<NL>>
    ELSE IF key \in TypedRunes THEN <<key>>
    ELSE <<>>

\* case *tcell.EventKey of the loop, but for its effect on the loop itself:
\* handleKey, then draw
handleEventKey(key) ==
    /\ phase = "running"
    /\ (~finished /\ TypedBy(key) # <<>> /\ cursorPos < Len(sampleRunes))
           => stats.totalKeystrokes < MaxKeys
    /\ LET res == handleKey(Engine, key, now)
       IN  /\ SetEngine(res.engine)
           /\ ret' = res.ret
           /\ frame' = draw(res.engine, screenSize)
           /\ session' = IF res.restart THEN <<>> ELSE session
           /\ mistyped' = IF res.restart THEN {}
                          ELSE IF ~finished /\ TypedBy(key) # <<>>
                          THEN Mistyped(TypedBy(key)[1])
                          ELSE mistyped
           /\ restored' = IF res.restart THEN FALSE ELSE restored
    /\ UNCHANGED <<phase, now, screenSize, app>>

\* case *tcell.EventResize of the loop, but for its effect on the loop itself:
\* the terminal has the new size, Sync, then draw
handleEventResize(size) ==
    /\ phase = "running"
    /\ screenSize' = size
    /\ frame' = draw(Engine, size)
    /\ UNCHANGED <<phase, engineVars, now, session, ret, histVars, app>>

\* the runes of the texts that are laid out
ViewRunes == {"a", SP, NL}

\* every text of up to MaxTextLen of these runes
ViewTexts ==
    UNION { [1..n -> ViewRunes] : n \in 0..MaxTextLen }

\* terminals too narrow for the margin, and two wide ones
WideWidths == {28, 40}
ScreenWidths == (0..MaxNarrowWidth) \cup WideWidths
ScreenHeights == {6, 10, 14}
ScreenSizes ==
    [width : ScreenWidths, height : ScreenHeights]

\* the key that matches the rune under the cursor
Expected(key) ==
    /\ cursorPos < Len(sampleRunes)
    /\ TypedBy(key) = <<sampleRunes[cursorPos + 1]>>

EventKey(key) ==
    /\ handleEventKey(key)
    /\ UNCHANGED run

EventResize(size) ==
    /\ handleEventResize(size)
    /\ UNCHANGED run

\* a test that is new, or restored with the cursor at the end of the text and
\* the text as its input, on a terminal of some size, after the first draw of
\* Run
InitView ==
    /\ phase = "running"
    /\ \E text \in ViewTexts, pos \in 0..MaxTextLen, size \in ScreenSizes :
         /\ pos \in {0, Len(text)}
         /\ LET e == RestoreState(NewTypingTest(text), SubSeq(text, 1, pos), pos)
            IN  /\ sampleRunes = e.sampleRunes
                /\ userRunes = e.userRunes
                /\ cursorPos = e.cursorPos
                /\ wordStart = e.wordStart
                /\ stats = e.stats
                /\ finished = e.finished
                /\ restored = (pos > 0)
                /\ screenSize = size
                /\ frame = draw(e, size)
    /\ now = TicksPerSecond
    /\ session = <<>>
    /\ ret = "void"
    /\ mistyped = {}
    /\ run = notRunning
    /\ app = textMode

\* the keys that match the text, and the resizing of the terminal
NextView ==
    \/ \E key \in TypedRunes \cup {KeyEnter} : Expected(key) /\ EventKey(key)
    \/ \E size \in ScreenSizes : EventResize(size)

SpecView == InitView /\ [][NextView]_vars

\* App.Run: the loop and the goroutine that polls the terminal

\* events are records: a key, a resize to a size, or the nil PollEvent returns
\* once the screen is finalized
keyEvent(key) ==
    [type |-> "key", key |-> key, size |-> defaultSize]

resizeEvent(size) ==
    [type |-> "resize", key |-> "", size |-> size]

nilEvent ==
    [type |-> "nil", key |-> "", size |-> defaultSize]

\* the events of the user at the terminal
LoopKeys == {"a", SP, KeyEnter, KeyEscape}
LoopSizes == { [width |-> MaxNarrowWidth, height |-> 10], [width |-> 40, height |-> 14] }
UserEvents ==
    { keyEvent(key) : key \in LoopKeys } \cup { resizeEvent(size) : size \in LoopSizes }

\* Run up to the loop: the first draw is done, the goroutine is started
running ==
    [loop |-> "select", poller |-> "select", polled |-> <<>>, received |-> <<>>,
     quit |-> FALSE, quitEventLoop |-> FALSE]

\* the goroutine at the top of its loop: select on quitEventLoop, with a default
PollerSelect ==
    /\ run.poller = "select"
    /\ run' = [run EXCEPT !.poller = IF run.quitEventLoop THEN "done" ELSE "polling"]
    /\ UNCHANGED <<phase, engineVars, now, session, ret, histVars, screenSize, frame, app>>

\* a goroutine that hands a key to the engine itself
PollEventHandlesKey(ev) ==
    /\ run.poller = "polling"
    /\ IF run.loop = "returned" THEN ev = nilEvent ELSE ev \in UserEvents
    /\ IF ev.type = "key" /\ phase = "running"
       THEN handleEventKey(ev.key)
       ELSE UNCHANGED <<phase, engineVars, now, session, ret, histVars,
                        screenSize, frame, app>>
    /\ run' = [run EXCEPT !.poller = "select"]

\* a.screen.PollEvent() returns: an event of the user, or nil once Fini has run
PollEvent(ev) ==
    /\ run.poller = "polling"
    /\ IF run.loop = "returned" THEN ev = nilEvent ELSE ev \in UserEvents
    /\ run' = [run EXCEPT !.poller = "sending", !.polled = <<ev>>]
    /\ UNCHANGED <<phase, engineVars, now, session, ret, histVars, screenSize, frame, app>>

\* eventChan <- ev in the goroutine meets <-eventChan in the loop, which is
\* entered while a.quit is not set
Exchange ==
    /\ run.poller = "sending"
    /\ run.loop = "select"
    /\ ~run.quit
    /\ run' = [run EXCEPT !.poller = "select", !.polled = <<>>,
                          !.loop = "handling", !.received = run.polled]
    /\ UNCHANGED <<phase, engineVars, now, session, ret, histVars, screenSize, frame, app>>

\* the goroutine leaves its send for the closed quitEventLoop, and closes
\* eventChan
PollerQuit ==
    /\ run.poller = "sending"
    /\ run.quitEventLoop
    /\ run' = [run EXCEPT !.poller = "done", !.polled = <<>>]
    /\ UNCHANGED <<phase, engineVars, now, session, ret, histVars, screenSize, frame, app>>

\* the loop handles the event it received: the type switch on ev
LoopHandle ==
    /\ run.loop = "handling"
    /\ LET ev == run.received[1]
       IN  /\ CASE ev.type = "key" -> handleEventKey(ev.key)
                [] ev.type = "resize" -> handleEventResize(ev.size)
                [] OTHER -> UNCHANGED <<phase, engineVars, now, session, ret,
                                        histVars, screenSize, frame, app>>
           /\ run' = [run EXCEPT
                        !.loop = "select",
                        !.quit = @ \/ (ev.type = "key"
                                       /\ handleKey(Engine, ev.key, now).quit)]

\* a ticker case that ends the test
tickerCaseEndsTest(e, size, t) ==
    [engine |-> MarkFinished(e, t), frame |-> draw(MarkFinished(e, t), size)]

\* case <-ticker.C of the loop: a draw at most
tickerCase(e, size, t) ==
    [engine |-> e, frame |-> draw(e, size)]

LoopTicker ==
    /\ run.loop = "select"
    /\ ~run.quit
    /\ LET res == tickerCase(Engine, screenSize, now)
       IN  /\ SetEngine(res.engine)
           /\ frame' = res.frame
    /\ UNCHANGED <<phase, now, session, ret, histVars, screenSize, run, app>>

\* the end of the loop without close(quitEventLoop)
LoopExitLeavesChannelOpen ==
    /\ run.loop = "select"
    /\ run.quit
    /\ run' = [run EXCEPT !.loop = "exited"]
    /\ session' = SessionAtQuit(Engine, session)
    /\ UNCHANGED <<phase, engineVars, now, ret, histVars, screenSize, frame, app>>

\* a.quit ends the loop: close(quitEventLoop), then the session is saved or
\* cleared
LoopExit ==
    /\ run.loop = "select"
    /\ run.quit
    /\ run' = [run EXCEPT !.loop = "exited", !.quitEventLoop = TRUE]
    /\ session' = SessionAtQuit(Engine, session)
    /\ UNCHANGED <<phase, engineVars, now, ret, histVars, screenSize, frame, app>>

\* Run returns: the deferred ticker.Stop and screen.Fini
LoopReturn ==
    /\ run.loop = "exited"
    /\ run' = [run EXCEPT !.loop = "returned"]
    /\ phase' = "exited"
    /\ UNCHANGED <<engineVars, now, session, ret, histVars, screenSize, frame, app>>

\* Run on one text of the library
InitLoop ==
    /\ phase = "running"
    /\ LET e == NewTypingTest(<<"a", SP, "i">>)
       IN  /\ sampleRunes = e.sampleRunes
           /\ userRunes = e.userRunes
           /\ cursorPos = e.cursorPos
           /\ wordStart = e.wordStart
           /\ stats = e.stats
           /\ finished = e.finished
           /\ \E size \in LoopSizes :
                /\ screenSize = size
                /\ frame = draw(e, size)
    /\ now = TicksPerSecond
    /\ session = <<>>
    /\ ret = "void"
    /\ mistyped = {}
    /\ restored = FALSE
    /\ run = running
    /\ app = textMode

NextLoop ==
    \/ PollerSelect
    \/ \E ev \in UserEvents \cup {nilEvent} : PollEvent(ev)
    \/ Exchange
    \/ PollerQuit
    \/ LoopHandle
    \/ LoopTicker
    \/ LoopExit
    \/ LoopReturn

SpecLoop == InitLoop /\ [][NextLoop]_vars

\* one test after another, with pauses of a second: typing, restart and the
\* switch to another text
NextTests ==
    \/ \E r \in {"a", SP} : HandleRune(r)
    \/ HandleEnter
    \/ restartTest
    \/ \E text \in LibraryTexts : selectText(text)
    \/ Sleep(TicksPerSecond)

SpecTests == Init /\ [][NextTests]_vars

\* the loop and the goroutine are scheduled: a step of the end of Run or of the
\* goroutine's way out that stays possible is taken
SpecLoopFair ==
    /\ SpecLoop
    /\ WF_vars(LoopExit)
    /\ WF_vars(LoopReturn)
    /\ WF_vars(PollerQuit)

\* the results screen with the graph of a timeline

\* instantaneous WPM values: four per correct key of the window
GraphWPMs == {0, 4, 24, 100, 104}

\* timelines of up to MaxSnapshots snapshots, one second apart
GraphHistories ==
    UNION { { [i \in 1..n |-> [Timestamp |-> (i + 1) * TicksPerSecond, WPM |-> w[i]]]
              : w \in [1..n -> GraphWPMs] } : n \in 0..MaxSnapshots }

\* a box too narrow for a graph, and a wide one
BoxWidths == {17, 60}

DrawResults(boxWidth, history) ==
    /\ frame' = drawResultsContent(boxWidth, history)
    /\ UNCHANGED <<phase, engineVars, now, session, ret, histVars, screenSize, run, app>>

NextGraph ==
    \E boxWidth \in BoxWidths, history \in GraphHistories :
        DrawResults(boxWidth, history)

SpecGraph == Init /\ [][NextGraph]_vars

\* a text is added to the library and typed

\* the runes of the texts that are added
RawRunes == {"a", SP, TAB, NL, CR} \cup UnicodeSpaces \cup ZeroWidth

RawTexts ==
    UNION { [1..n -> RawRunes] : n \in 0..MaxRawLen }

\* TextLibrary.AddText on the content in sampleRunes, and the test on the text
\* of the library
AddText ==
    /\ phase = "loading"
    /\ phase' = "running"
    /\ SetEngine(NewTypingTest(NormalizeWhitespace(sampleRunes)))
    /\ UNCHANGED <<appVars, now, session, ret, histVars>>

\* a content for AddText: while the phase is "loading", sampleRunes holds it
InitLibrary ==
    /\ phase = "loading"
    /\ sampleRunes \in RawTexts
    /\ userRunes = <<>>
    /\ cursorPos = 0
    /\ wordStart = 0
    /\ stats = NewStats
    /\ finished = FALSE
    /\ now = TicksPerSecond
    /\ session = <<>>
    /\ ret = "void"
    /\ mistyped = {}
    /\ restored = FALSE
    /\ screenSize = defaultSize
    /\ frame = <<>>
    /\ run = notRunning
    /\ app = textMode

NextLibrary ==
    \/ AddText
    \/ \E r \in {"a", SP} : HandleRune(r)

SpecLibrary == InitLibrary /\ [][NextLibrary]_vars

\* the application across runs, with the selection of another text
NextSessionTexts ==
    \/ NextSession
    \/ \E text \in Texts : selectText(text)

SpecSessionTexts == Init /\ [][NextSessionTexts]_vars

-----------------------------------------------------------------------------
\* Word mode (internal/app.go, internal/wordlib.go)

\* WordLibrary.GenerateRandomWords: count words of the current word set, joined
\* by single spaces; "" for a word set without words.  The word sets of the
\* model hold one word, so that rand.Intn(len(wordSet.Words)) is 0
RECURSIVE GenerateRandomWords(_, _)
GenerateRandomWords(wordSet, count) ==
    IF Len(wordSet) = 0 \/ count <= 0 THEN <<>>
    ELSE IF count = 1 THEN wordSet[1]
    ELSE GenerateRandomWords(wordSet, count - 1) \o <<SP>> \o wordSet[1]

\* the words of the first text of word mode
initialWords(a) ==
    IF a.limitType = "words" THEN a.wordLimit * wordLimitMultiplier
    ELSE initialWordCount

\* InputHandler.HandleKey in ModeTyping and ModeResults with the callbacks of
\* NewApp: onQuit sets a.quit, onRestartTest is restartTest
HandleKey(a, e, key, t) ==
    IF key = KeyEscape
    THEN [app |-> a, engine |-> e, ret |-> "void", quit |-> TRUE, restart |-> FALSE]
    ELSE IF a.showResults
    THEN IF key = KeyEnter
         THEN [app |-> [a EXCEPT !.showResults = FALSE, !.testStarted = 0],
               engine |-> Reset(e), ret |-> "void", quit |-> FALSE, restart |-> TRUE]
         ELSE [app |-> a, engine |-> e, ret |-> "void", quit |-> FALSE,
               restart |-> FALSE]
    ELSE IF key = KeyBackspace
    THEN [app |-> a, engine |-> Backspace(e), ret |-> "void", quit |-> FALSE,
          restart |-> FALSE]
    ELSE LET res == IF key = KeyEnter THEN TypeNewline(e, t)
                    ELSE TypeCharacter(e, key, t)
         IN  [app |-> a, engine |-> res.engine, ret |-> res.ret, quit |-> FALSE,
              restart |-> FALSE]

\* App.ensureEnoughWords: once the cursor is lastCheckPositionOffset runes past
\* the last look, and fewer than wordModeLinesThreshold wrapped lines remain
\* from the cursor on, SetSampleText of the text with a chunk of new words
ensureEnoughWords(a, e, size) ==
    IF e.cursorPos < a.lastCheckPosition + lastCheckPositionOffset
    THEN [app |-> a, engine |-> e]
    ELSE LET remainingText == Slice(e.sampleRunes, e.cursorPos, Len(e.sampleRunes))
             remainingLines == wrapText(remainingText, appMaxWidth(size.width))
             newWords == GenerateRandomWords(a.words, wordGenerationChunk)
         IN  [app |-> [a EXCEPT !.lastCheckPosition = e.cursorPos],
              engine |-> IF Len(remainingLines) < wordModeLinesThreshold
                            /\ newWords # <<>>
                         THEN SetSampleText(e, e.sampleRunes \o <<SP>> \o newWords)
                         ELSE e]

\* the limit check of handleKey: time.Since(a.testStarted) against the time
\* limit, or the words of the input against the word limit
limitReached(a, e, t) ==
    IF a.limitType = "time" /\ a.testStarted # 0
    THEN t - a.testStarted >= a.timeLimit * TicksPerSecond
    ELSE a.limitType = "words" /\ Len(Fields(e.userRunes)) >= a.wordLimit

\* handleKey after the key is handled: the start of the timer of word mode and
\* the extension of the text; h is what HandleKey left
afterKey(h, typing, size, t) ==
    LET a1 == IF typing /\ h.app.mode = "words" /\ h.app.testStarted = 0
                 /\ h.engine.cursorPos > 0
              THEN [h.app EXCEPT !.testStarted = t]
              ELSE h.app
    IN  IF typing /\ a1.mode = "words"
        THEN ensureEnoughWords(a1, h.engine, size)
        ELSE [app |-> a1, engine |-> h.engine]

\* the end of handleKey: the limits of word mode and the results; x is what
\* the extension left
checkLimits(h, x, t) ==
    LET limit == x.app.mode = "words" /\ ~x.engine.finished
                 /\ limitReached(x.app, x.engine, t)
        finishedNow == limit \/ x.engine.finished
    IN  [app |-> [x.app EXCEPT !.showResults = @ \/ finishedNow],
         engine |-> IF limit THEN MarkFinished(x.engine, t) ELSE x.engine,
         typed |-> h.engine, ret |-> h.ret, quit |-> h.quit,
         restart |-> h.restart, extended |-> x.engine # h.engine]

\* App.handleKey, the command menu closed: the key, the start of the timer of
\* word mode, the extension of the text, the limits, the results; each step
\* works on the value the step before it left
handleKeyInMode(a, e, key, size, t) ==
    CHOOSE res \in UNION { { checkLimits(h, x, t) :
                               x \in {afterKey(h, ~a.showResults, size, t)} } :
                           h \in {HandleKey(a, e, key, t)} } : TRUE

\* the progress line of word mode: tenths of seconds are ticks here
progress(a, e, t) ==
    IF a.mode = "words" /\ a.testStarted # 0
    THEN IF a.limitType = "time"
         THEN LET remaining == a.timeLimit * TicksPerSecond - (t - a.testStarted)
              IN  <<[time |-> IF remaining < 0 THEN 0 ELSE remaining]>>
         ELSE <<[words |-> Len(Fields(e.userRunes)), of |-> a.wordLimit]>>
    ELSE <<>>

\* App.draw in either mode: in word mode the typing screen shows
\* wordModeVisibleLines lines from the line of the cursor on
drawInMode(a, e, size, t) ==
    IF a.showResults THEN <<>>
    ELSE IF a.mode # "words" THEN <<drawTypingScreen(e, size)>>
    ELSE LET maxWidth == appMaxWidth(size.width)
             cursorLine == CalculateCursorLine(e.sampleRunes, e.cursorPos, maxWidth)
             lines == wrapText(e.sampleRunes, maxWidth)
             scrollLine == IF cursorLine < 0 THEN 0 ELSE cursorLine
             view == DrawTypingView([SampleRunes |-> e.sampleRunes,
                                     CursorPos |-> e.cursorPos,
                                     ScrollLine |-> scrollLine], size)
         IN  <<[ maxWidth |-> maxWidth,
                 maxVisibleLines |-> wordModeVisibleLines,
                 cursorLine |-> cursorLine,
                 lines |-> lines,
                 totalLines |-> Len(lines),
                 scrollLine |-> scrollLine,
                 view |-> [view EXCEPT !.maxVisibleLines = wordModeVisibleLines],
                 progress |-> progress(a, e, t) ]>>

\* case *tcell.EventKey of the loop in word mode: handleKey, then draw; typing
\* is cut off after maxKeys keystrokes
WordsEventKey(key, maxKeys) ==
    /\ phase = "running"
    /\ app.mode = "words"
    /\ (~app.showResults /\ TypedBy(key) # <<>> /\ ~finished
          /\ cursorPos < Len(sampleRunes))
           => stats.totalKeystrokes < maxKeys
    /\ \E res \in {handleKeyInMode(app, Engine, key, screenSize, now)} :
           /\ SetEngine(res.engine)
           /\ app' = res.app
           /\ ret' = res.ret
           /\ frame' = drawInMode(res.app, res.engine, screenSize, now)
           /\ session' = IF res.restart THEN <<>> ELSE session
           /\ mistyped' = IF res.restart \/ res.extended THEN {}
                          ELSE IF ~app.showResults /\ TypedBy(key) # <<>>
                                  /\ ~finished /\ cursorPos < Len(sampleRunes)
                                  /\ sampleRunes[cursorPos + 1] # TypedBy(key)[1]
                          THEN mistyped \cup {cursorPos}
                          ELSE mistyped
           /\ restored' = IF res.restart THEN FALSE ELSE restored
    /\ UNCHANGED <<phase, now, screenSize, run>>

\* case <-ticker.C of the loop: under a time limit, once the timer of the test
\* runs, a draw
WordsTicker ==
    /\ phase = "running"
    /\ app.mode = "words"
    /\ frame' = IF app.limitType = "time" /\ app.testStarted # 0
                THEN drawInMode(app, Engine, screenSize, now)
                ELSE frame
    /\ UNCHANGED <<phase, engineVars, now, session, ret, histVars, screenSize,
                   run, app>>

\* time passes while a test under a time limit is on
LimitTick ==
    /\ now < MaxLimitTime
    /\ now' = now + 1
    /\ UNCHANGED <<appVars, phase, engineVars, session, ret, histVars>>

\* word sets of one word
WordSets == { << <<"a">> >>, << <<"i">> >> }

\* App.setTimeLimit, run from the command menu: the limit of the test becomes
\* a time limit, the text stays; the loop draws after the key
setTimeLimit(seconds) ==
    /\ phase = "running"
    /\ app.mode = "words"
    /\ app.limitType = "words"
    /\ app' = [app EXCEPT !.timeLimit = seconds, !.limitType = "time"]
    /\ frame' = drawInMode(app', Engine, screenSize, now)
    /\ UNCHANGED <<phase, engineVars, now, session, ret, histVars, screenSize, run>>

\* NewApp in word mode without a session: the first text is generated
InitWords(wordSets, limitType, limits, sizes) ==
    /\ phase = "running"
    /\ \E wordSet \in wordSets, limit \in limits, size \in sizes :
         LET a == [mode |-> "words", limitType |-> limitType,
                   timeLimit |-> IF limitType = "time" THEN limit
                                 ELSE defaultTimeLimit,
                   wordLimit |-> IF limitType = "words" THEN limit
                                 ELSE defaultWordLimit,
                   testStarted |-> 0, lastCheckPosition |-> 0,
                   showResults |-> FALSE, words |-> wordSet]
             e == NewTypingTest(GenerateRandomWords(wordSet, initialWords(a)))
         IN  /\ app = a
             /\ sampleRunes = e.sampleRunes
             /\ userRunes = e.userRunes
             /\ cursorPos = e.cursorPos
             /\ wordStart = e.wordStart
             /\ stats = e.stats
             /\ finished = e.finished
             /\ screenSize = size
             /\ frame = drawInMode(a, e, size, TicksPerSecond)
    /\ now = TicksPerSecond
    /\ session = <<>>
    /\ ret = "void"
    /\ mistyped = {}
    /\ restored = FALSE
    /\ run = running

\* word mode under a word limit of 6 words, on a terminal of 12 columns
WordLimitKeys == {"a", SP}

NextWords ==
    \/ \E key \in WordLimitKeys : WordsEventKey(key, MaxWordKeys)
    \/ WordsTicker

SpecWords ==
    /\ InitWords(WordSets, "words", {6}, { [width |-> 12, height |-> 10] })
    /\ [][NextWords]_vars

\* word mode started under a word limit of 2 words and the word set of the
\* word "a" on a terminal of 40 columns; the user replaces the word limit by a
\* time limit of one second
TimeLimitKeys == {"a", SP, KeyEnter}

NextTimed ==
    \/ \E key \in TimeLimitKeys : WordsEventKey(key, MaxKeys)
    \/ setTimeLimit(1)
    \/ WordsTicker
    \/ LimitTick

SpecTimed ==
    /\ InitWords({ << <<"a">> >> }, "words", {2}, { [width |-> 40, height |-> 14] })
    /\ [][NextTimed]_vars

\* the ticker fires every timerUpdateIntervalMS and the loop takes its case;
\* the clock goes on; the user need not press a key
SpecTimedFair ==
    /\ SpecTimed
    /\ WF_vars(WordsTicker)
    /\ WF_vars(LimitTick)

-----------------------------------------------------------------------------
\* Vocabulary of the properties

\* a keystroke reaches TypeCharacter or TypeNewline
TypingKey ==
    (\E r \in TypedRunes : HandleRune(r)) \/ HandleEnter

\* the words of a text: the half-open ranges <<s, e>> of sample[s:e] that hold
\* no whitespace and have whitespace or an end of the text on either side
WordSpans(sample) ==
    { sp \in (0..Len(sample)) \X (0..Len(sample)) :
        /\ sp[1] < sp[2]
        /\ \A i \in sp[1]..(sp[2] - 1) : ~IsSpace(sample[i + 1])
        /\ sp[1] = 0 \/ IsSpace(sample[sp[1]])
        /\ sp[2] = Len(sample) \/ IsSpace(sample[sp[2] + 1]) }

WordAt(sp) ==
    Slice(sampleRunes, sp[1], sp[2])

\* the input now holds the word, every rune as the sample has it
NowCorrect(sp) ==
    /\ cursorPos >= sp[2]
    /\ \A i \in sp[1]..(sp[2] - 1) : userRunes[i + 1] = sampleRunes[i + 1]

\* no incorrect keystroke was ever made at a position of the word or at the
\* position of the boundary after it
NeverMistyped(sp) ==
    mistyped \cap (sp[1]..sp[2]) = {}

\* an incorrect keystroke was made at a position of the word
HadMistake(sp) ==
    mistyped \cap (sp[1]..(sp[2] - 1)) # {}

\* the last keystroke was accepted and was the word's boundary, typed as the
\* sample has it, or the last rune of the text
BoundaryJustTyped(sp) ==
    /\ ret = "true"
    /\ IF sp[2] = Len(sampleRunes)
       THEN cursorPos = Len(sampleRunes)
       ELSE cursorPos = sp[2] + 1 /\ userRunes[sp[2] + 1] = sampleRunes[sp[2] + 1]

RECURSIVE LedgerTotal(_, _)
LedgerTotal(s, i) ==
    IF i = 0 THEN 0
    ELSE Count(s.misspelledWords, s.misspelledOrder[i]) + LedgerTotal(s, i - 1)

LedgerSize(s) ==
    LedgerTotal(s, Len(s.misspelledOrder))

-----------------------------------------------------------------------------
\* C1: once the engine is finished, by the last rune or by MarkFinished, every
\* further TypeCharacter and TypeNewline returns false and changes no engine
\* state, Backspaces in between included.
C1_FinishedRejectsTyping ==
    [][ (finished /\ TypingKey) => (ret' = "false" /\ UNCHANGED engineVars) ]_vars

\* C2: a word that is typed entirely correctly, every occurrence of it, is
\* never in the misspelled-word ledger.
C2_CorrectWordNotInLedger ==
    \A sp \in WordSpans(sampleRunes) :
        (\A other \in WordSpans(sampleRunes) :
            WordAt(other) = WordAt(sp) => NowCorrect(other) /\ NeverMistyped(other))
        => Count(stats.misspelledWords, WordAt(sp)) = 0

\* C3: a word that had an incorrect keystroke and was corrected with Backspace
\* is in the ledger as soon as its boundary is typed.
C3_CorrectedWordInLedger ==
    \A sp \in WordSpans(sampleRunes) :
        (HadMistake(sp) /\ NowCorrect(sp) /\ BoundaryJustTyped(sp))
        => Count(stats.misspelledWords, WordAt(sp)) >= 1

\* C4: the cursor is within the text, 0 <= CursorPos <= len(SampleText), after
\* every keystroke, Backspace and restore.
C4_CursorWithinText ==
    0 <= cursorPos /\ cursorPos <= Len(sampleRunes)

\* C5: the typed input is as long as the cursor position, after every
\* keystroke, Backspace, reset and restore.
C5_InputLengthIsCursor ==
    Len(userRunes) = cursorPos

\* C5 witness: a restored session in which Backspace has moved the cursor back
C5_Witness ==
    /\ restored
    /\ phase = "running"
    /\ session # <<>>
    /\ 0 < cursorPos
    /\ cursorPos < session[1].CursorPos

\* C6: a word's error flag, once set, stays set for the rest of the session:
\* no keystroke, correct or not, and no Backspace takes it back.
C6_FlagStaysSet ==
    [][ (TypingKey \/ HandleBackspace \/ LimitReached \/ Tick)
        => stats.wordHadError \subseteq stats'.wordHadError ]_vars

\* C6 witness: a flagged position that was mistyped and now holds the correct rune
C6_Witness ==
    \E pos \in stats.wordHadError :
        /\ pos \in mistyped
        /\ pos < cursorPos
        /\ userRunes[pos + 1] = sampleRunes[pos + 1]

\* C7: every entry of the ledger is a whole word of the sample text, from one
\* boundary to the next.
C7_LedgerHoldsWholeWords ==
    \A w \in DOMAIN stats.misspelledWords :
        \E sp \in WordSpans(sampleRunes) : WordAt(sp) = w

\* C8: an accepted keystroke that leaves the cursor at the end of the text
\* finishes the engine, stops the timer at the time of the keystroke, and
\* records the trailing word in the ledger if it is flagged.
C8_LastRuneFinishes ==
    [][ (TypingKey /\ ret' = "true" /\ cursorPos' = Len(sampleRunes))
        => /\ finished'
           /\ stats'.testComplete
           /\ stats'.endTime = now
           /\ (wordStart' < Len(sampleRunes) /\ wordStart' \in stats'.wordHadError)
              => LedgerSize(stats') > LedgerSize(stats) ]_vars

\* C8 witness: the last rune was typed, the trailing word was flagged and recorded
C8_Witness ==
    /\ ret = "true"
    /\ Len(sampleRunes) > 0
    /\ cursorPos = Len(sampleRunes)
    /\ finished
    /\ wordStart < Len(sampleRunes)
    /\ wordStart \in stats.wordHadError
    /\ LedgerSize(stats) > 0

\* C9: an engine whose sample text is empty is finished.
C9_EmptyTextIsFinished ==
    (phase = "running" /\ sampleRunes = <<>>) => finished

\* C10 as stated: typing at the end of the text and Backspace at position 0
\* change nothing and both report it with the result false.
C10_NoOpsReturnFalse ==
    [][ /\ (TypingKey /\ cursorPos >= Len(sampleRunes))
           => (ret' = "false" /\ UNCHANGED engineVars /\ phase' = "running")
        /\ (HandleBackspace /\ cursorPos = 0)
           => (ret' = "false" /\ UNCHANGED engineVars /\ phase' = "running") ]_vars

\* C10: typing at the end of the text changes nothing and returns false;
\* Backspace at position 0 changes nothing and returns no value; neither faults.
C10_NoOps ==
    [][ /\ (TypingKey /\ cursorPos >= Len(sampleRunes))
           => (ret' = "false" /\ UNCHANGED engineVars /\ phase' = "running")
        /\ (HandleBackspace /\ cursorPos = 0)
           => (ret' = "void" /\ UNCHANGED engineVars /\ phase' = "running") ]_vars

\* C10 witness: a keystroke at the end of a text that is not empty was refused
C10_Witness ==
    /\ ret = "false"
    /\ Len(sampleRunes) > 0
    /\ cursorPos = Len(sampleRunes)

-----------------------------------------------------------------------------
\* a keystroke that matches the rune of the sample at the cursor
MatchingKey ==
    /\ cursorPos < Len(sampleRunes)
    /\ \/ \E r \in TypedRunes : HandleRune(r) /\ sampleRunes[cursorPos + 1] = r
       \/ HandleEnter /\ sampleRunes[cursorPos + 1] = NL

\* the input is the prefix of the sample that ends at the cursor
InputIsPrefix ==
    /\ cursorPos <= Len(sampleRunes)
    /\ userRunes = SubSeq(sampleRunes, 1, cursorPos)

\* C11: typing a prefix of the sample rune by rune, every keystroke matching,
\* leaves the cursor at the length of the prefix and the input equal to it: a
\* matching keystroke takes the prefix of length n to the prefix of length n + 1.
C11_MatchingKeysTypePrefix ==
    [][ (MatchingKey /\ InputIsPrefix)
        => /\ ret' = "true"
           /\ cursorPos' = cursorPos + 1
           /\ userRunes' = SubSeq(sampleRunes, 1, cursorPos + 1) ]_vars

\* C11 witness: a whole text typed with matching keystrokes and nothing else
C11_Witness ==
    /\ Len(sampleRunes) > 0
    /\ mistyped = {}
    /\ stats.totalKeystrokes = Len(sampleRunes)
    /\ cursorPos = Len(sampleRunes)
    /\ userRunes = sampleRunes

-----------------------------------------------------------------------------
\* the record NewApp restores from
Persisted ==
    LoadSession(session[1])

\* NewApp restores engine and stats: RestoreState does not panic and
\* RestoreStatsFromSession returns no error
RestoreSucceeds ==
    /\ NewApp
    /\ phase' = "running"
    /\ ~RestoreStatsError(Persisted)

\* C12: after a restore from a persisted record the WPM timeline and the
\* rolling keystroke window are empty, and the total and correct keystroke
\* counters are the persisted ones.
C12_RestoreKeepsCountersOnly ==
    [][ RestoreSucceeds
        => /\ stats'.wpmHistory = <<>>
           /\ stats'.keystrokeEvents = <<>>
           /\ stats'.totalKeystrokes = Persisted.TotalKeystrokes
           /\ stats'.correctKeystrokes = Persisted.CorrectKeystrokes ]_vars

\* C12 witness: a restored session with an incorrect keystroke among the
\* persisted ones, the window empty
C12_Witness ==
    /\ restored
    /\ phase = "running"
    /\ session # <<>>
    /\ ~RestoreStatsError(Persisted)
    /\ stats.keystrokeEvents = <<>>
    /\ stats.totalKeystrokes = Persisted.TotalKeystrokes
    /\ stats.correctKeystrokes < stats.totalKeystrokes
    /\ stats.correctKeystrokes > 0

\* C13: when the start timestamp of the persisted record does not parse, the
\* restore reports the error, no start time is made up, and the caller starts
\* a fresh session: cursor 0, empty input, zero counters.
C13_BadTimestampFallsBackToFresh ==
    [][ (NewApp /\ RestoreStatsError(Persisted))
        => /\ phase' = "running"
           /\ stats'.startTime = 0
           /\ cursorPos' = 0
           /\ userRunes' = <<>>
           /\ stats'.totalKeystrokes = 0
           /\ stats'.correctKeystrokes = 0 ]_vars

-----------------------------------------------------------------------------
\* C14: every accessor that returns a collection returns an independent copy:
\* a caller that writes into the returned value changes nothing of the Stats,
\* so later accessor calls return what they returned before.
C14_AccessorsReturnCopies ==
    [][ (\E name \in Accessors : CallerMutates(name)) => stats' = stats ]_vars

-----------------------------------------------------------------------------
\* the keystrokes recorded as incorrect
IncorrectKeystrokes(s) ==
    s.totalKeystrokes - s.correctKeystrokes

\* C15 as stated: there are as many error timestamps as incorrect keystrokes
\* recorded.
C15_TimestampPerIncorrectKey ==
    Len(stats.errorTimestamps) = IncorrectKeystrokes(stats)

\* C15: once the Stats has a start time, RecordKeystroke(false) appends exactly
\* one error timestamp, the time of the keystroke, and RecordKeystroke(true)
\* appends none; without a start time RecordKeystroke appends none, and there
\* are never more error timestamps than incorrect keystrokes recorded.
C15_TimestampPerIncorrectKeyOnceStarted ==
    [][ /\ \A correct \in BOOLEAN :
             StatsRecord(correct)
             => stats'.errorTimestamps =
                  IF ~correct /\ stats.startTime # 0
                  THEN Append(stats.errorTimestamps, now)
                  ELSE stats.errorTimestamps
        /\ Len(stats'.errorTimestamps) <= IncorrectKeystrokes(stats') ]_vars

\* C15 witness: a started Stats after one correct and one incorrect keystroke
C15_Witness ==
    /\ stats.startTime # 0
    /\ Len(stats.keystrokeEvents) = 2
    /\ stats.correctKeystrokes = 1
    /\ stats.totalKeystrokes = 2
    /\ Len(stats.errorTimestamps) = 1

\* h is an initial part of g
IsPrefixOf(h, g) ==
    Len(h) <= Len(g) /\ SubSeq(g, 1, Len(h)) = h

\* C16: the WPM timeline is append-only within a session: no step shortens it
\* or changes a recorded snapshot, and every snapshot has a timestamp not
\* before the start of the session and a WPM of at least 0.
C16_TimelineAppendOnly ==
    [][ /\ IsPrefixOf(stats.wpmHistory, stats'.wpmHistory)
        /\ \A i \in 1..Len(stats'.wpmHistory) :
             /\ stats'.wpmHistory[i].Timestamp >= stats'.startTime
             /\ stats'.wpmHistory[i].WPM >= 0 ]_vars

\* C16 witness: a timeline of two snapshots, the first with a WPM above 0
C16_Witness ==
    /\ Len(stats.wpmHistory) = 2
    /\ stats.wpmHistory[1].WPM > 0

\* C17: the timestamps of two consecutive snapshots of the timeline are at
\* least the snapshot interval, one second, apart.
C17_SnapshotsOneIntervalApart ==
    \A i \in 1..(Len(stats.wpmHistory) - 1) :
        stats.wpmHistory[i + 1].Timestamp - stats.wpmHistory[i].Timestamp
            >= SnapshotIntervalSec * TicksPerSecond

\* C17 witness: two snapshots exactly one interval apart
C17_Witness ==
    /\ Len(stats.wpmHistory) = 2
    /\ stats.wpmHistory[2].Timestamp - stats.wpmHistory[1].Timestamp
           = SnapshotIntervalSec * TicksPerSecond

\* C18: after a timeline update that appends a snapshot, no retained keystroke
\* event is older than the retention horizon of 10 seconds.
C18_EventsWithinHorizon ==
    [][ ((\E correct \in BOOLEAN : StatsRecord(correct))
         /\ Len(stats'.wpmHistory) > Len(stats.wpmHistory))
        => \A i \in 1..Len(stats'.keystrokeEvents) :
             stats'.keystrokeEvents[i].timestamp
                 >= now - CleanupHorizonSec * TicksPerSecond ]_vars

\* C18 witness: two keystrokes were recorded as events, a snapshot was taken,
\* and one event is left
C18_Witness ==
    /\ Len(stats.errorTimestamps) = 2
    /\ Len(stats.wpmHistory) >= 1
    /\ Len(stats.keystrokeEvents) = 1

\* the accuracy is 100 at zero keystrokes and correct/total*100 otherwise
AccuracyAsSpecified(s) ==
    IF s.totalKeystrokes = 0
    THEN RatioEq(GetAccuracy(s), Ratio(100, 1))
    ELSE RatioEq(GetAccuracy(s), Ratio(s.correctKeystrokes * 100, s.totalKeystrokes))

\* C19: the accuracy is exactly 100 when no keystroke is recorded, is
\* correct/total*100 otherwise, and does not rise when an incorrect keystroke
\* is recorded.
C19_Accuracy ==
    [][ /\ AccuracyAsSpecified(stats)
        /\ AccuracyAsSpecified(stats')
        /\ StatsRecord(FALSE)
           => RatioLeq(GetAccuracy(stats'), GetAccuracy(stats)) ]_vars

\* C19 witness: an incorrect keystroke recorded after a correct one
C19_Witness ==
    /\ Len(stats.keystrokeEvents) = 2
    /\ stats.keystrokeEvents[1].correct
    /\ ~stats.keystrokeEvents[2].correct
    /\ RatioEq(GetAccuracy(stats), Ratio(50, 1))

\* C20: the session WPM is 0 whenever less than one second has passed since
\* the start time of the Stats, whatever the keystroke counts, for a restored
\* and for a finished Stats too.
C20_NoWPMInFirstSecond ==
    (stats.startTime # 0 /\ now - stats.startTime < TicksPerSecond)
    => GetWPM(stats, now).num = 0

\* C20 witness: a finished Stats with correct keystrokes, less than a second
\* after its start
C20_Witness ==
    /\ stats.startTime # 0
    /\ now - stats.startTime < TicksPerSecond
    /\ now > stats.startTime
    /\ stats.correctKeystrokes > 0
    /\ stats.testComplete

-----------------------------------------------------------------------------
\* a step of Reset or of a switch to another text
ResetOrSwitch ==
    restartTest \/ \E text \in Texts : selectText(text)

\* C21: Reset and a text switch make the state of the test afresh: afterwards
\* the cursor is 0, the input is empty, the word start is 0, the engine is not
\* finished (for a text that is not empty), and the Stats is a new one, with
\* nothing of the counters, flags, ledger, timeline and timestamps of the test
\* before.
C21_ResetMakesFresh ==
    [][ ResetOrSwitch
        => /\ cursorPos' = 0
           /\ userRunes' = <<>>
           /\ wordStart' = 0
           /\ sampleRunes' # <<>> => ~finished'
           /\ stats' = NewStats
           /\ stats'.totalKeystrokes = 0
           /\ stats'.wpmHistory = <<>>
           /\ stats'.errorTimestamps = <<>>
           /\ stats'.misspelledOrder = <<>>
           /\ stats'.wordHadError = {} ]_vars

\* C21 witness: a finished test with counters, flags, a ledger, a timeline and
\* error timestamps, which Reset or a text switch is to discard
C21_Witness ==
    /\ finished
    /\ cursorPos > 0
    /\ wordStart > 0
    /\ stats.totalKeystrokes > 0
    /\ stats.wpmHistory # <<>>
    /\ stats.errorTimestamps # <<>>
    /\ stats.misspelledOrder # <<>>
    /\ stats.wordHadError # {}

\* C22: handling a tick of the timer leaves cursor, input, finished flag,
\* counters, ledger and timeline as they are; all it does is draw again.
C22_TickerOnlyDraws ==
    [][ LoopTicker
        => /\ UNCHANGED <<sampleRunes, userRunes, cursorPos, wordStart, finished,
                          stats>>
           /\ frame' = draw(Engine, screenSize) ]_vars

\* C22 witness: the loop waits in its select, where the ticker may fire, with
\* a test in progress that has mistakes and an event on offer as well
C22_Witness ==
    /\ run.loop = "select"
    /\ ~run.quit
    /\ run.poller = "sending"
    /\ cursorPos > 0
    /\ ~finished
    /\ stats.correctKeystrokes < stats.totalKeystrokes

\* C23: the state of the engine and its Stats changes in steps of the loop
\* only, while it handles an event; the polling goroutine takes no part in such
\* a step, and its own steps, polling and forwarding, change nothing but its
\* side of the channel.
C23_OnlyTheLoopMutates ==
    [][ /\ engineVars' # engineVars
           => /\ run.loop = "handling"
              /\ run'.loop = "select"
              /\ run'.poller = run.poller
              /\ run'.polled = run.polled
        /\ (run'.poller # run.poller \/ run'.polled # run.polled)
           => UNCHANGED <<engineVars, session, screenSize, frame>> ]_vars

\* C23 witness: the loop is about to handle a key that the engine takes while
\* the goroutine already holds the next event
C23_Witness ==
    /\ run.loop = "handling"
    /\ run.received = <<keyEvent("a")>>
    /\ run.poller = "sending"
    /\ cursorPos > 0
    /\ ~finished

\* C24: once the quit key is handled the loop takes no further event and
\* changes the engine no more, it ends, and the polling goroutine does not stay
\* blocked in its send to the event channel.
C24_QuitEndsLoopAndPoller ==
    /\ [][ run.quit => /\ run'.received = run.received
                       /\ run'.quit
                       /\ UNCHANGED engineVars ]_vars
    /\ run.quit ~> run.loop = "returned"
    /\ (run.quit /\ run.poller = "sending") ~> run.poller = "done"

\* C24 witness: Run has returned after the quit key, and the goroutine, which
\* held an event nobody was to take, is done
C24_Witness ==
    /\ run.quit
    /\ run.received = <<keyEvent(KeyEscape)>>
    /\ run.loop = "returned"
    /\ run.poller = "done"
    /\ cursorPos > 0

\* a key of the typing mode reaches the engine: a character, a newline or a
\* backspace
TypingKeystroke ==
    \/ \E r \in TypedRunes : HandleRune(r)
    \/ HandleEnter
    \/ HandleBackspace

\* C25: handling a typing keystroke leaves the session file alone, and the
\* file is written at the end of Run only.
C25_NoSaveWhileTyping ==
    [][ /\ TypingKeystroke => session' = session
        /\ (session' # session /\ session' # <<>>) => Quit ]_vars

\* C25 witness: keys were typed after a restore, and the session file still
\* holds what the quit before the restore wrote
C25_Witness ==
    /\ phase = "running"
    /\ restored
    /\ session # <<>>
    /\ stats.totalKeystrokes > session[1].TotalKeystrokes
    /\ cursorPos # session[1].CursorPos

-----------------------------------------------------------------------------
\* C26: the maxWidth that drawTypingScreen computes the cursor line and the
\* scroll offset with is the maxWidth the draw pass wraps the text with, for
\* every terminal width.
C26_SameMaxWidth ==
    frame # <<>> => frame[1].maxWidth = frame[1].view.maxWidth

\* the cursor lines CalculateScrollLine is asked about
CursorLines == (-1)..(MaxTextLen + 2)

Max0(n) ==
    IF n > 0 THEN n ELSE 0

\* a scroll line within [0, max(0, totalLines - maxVisibleLines)], and 0 when
\* all lines fit
ScrollLineInRange(scrollLine, maxVisibleLines, totalLines) ==
    /\ 0 <= scrollLine
    /\ scrollLine <= Max0(totalLines - maxVisibleLines)
    /\ totalLines <= maxVisibleLines => scrollLine = 0

\* C27: CalculateScrollLine returns a value in
\* [0, max(0, totalLines - maxVisibleLines)], and 0 when all lines fit the
\* viewport: for the cursor line of the frame and for every other cursor line.
C27_ScrollLineInRange ==
    frame # <<>> =>
        LET f == frame[1]
        IN  /\ ScrollLineInRange(f.scrollLine, f.maxVisibleLines, f.totalLines)
            /\ \A c \in CursorLines :
                 ScrollLineInRange(
                     CalculateScrollLine(c, f.maxVisibleLines, f.totalLines),
                     f.maxVisibleLines, f.totalLines)

\* C27 witness: a frame scrolled to a line strictly between the first and the
\* last scroll position
C27_Witness ==
    /\ frame # <<>>
    /\ frame[1].scrollLine > 0
    /\ frame[1].scrollLine < frame[1].totalLines - frame[1].maxVisibleLines

\* C28: wrapText is idempotent: each line of its output, wrapped again with the
\* same maxWidth, is that line and nothing else.
C28_WrapTextIdempotent ==
    frame # <<>> =>
        \A i \in 1..Len(frame[1].lines) :
            wrapText(frame[1].lines[i], frame[1].maxWidth) = <<frame[1].lines[i]>>

\* the lines one after another
RECURSIVE Concat(_)
Concat(lines) ==
    IF lines = <<>> THEN <<>> ELSE Head(lines) \o Concat(Tail(lines))

\* the 1-based positions of the newlines of a text
Newlines(text) ==
    { i \in 1..Len(text) : text[i] = NL }

\* C29: the lines of wrapText, one after another, are the text: a newline of
\* the text is the last rune of its line, no line holds a newline elsewhere, and
\* the lengths of the lines add up to the length of the text.
C29_LinesAreTheText ==
    frame # <<>> =>
        LET lines == frame[1].lines
        IN  /\ Concat(lines) = sampleRunes
            /\ Len(Concat(lines)) = Len(sampleRunes)
            /\ \A i \in 1..Len(lines) : Newlines(lines[i]) \subseteq {Len(lines[i])}
            /\ Cardinality({ i \in 1..Len(lines) : Newlines(lines[i]) # {} })
                   = Cardinality(Newlines(sampleRunes))

\* C29 witness: a text wrapped at a newline and, elsewhere, without one
C29_Witness ==
    /\ frame # <<>>
    /\ \E i, j \in 1..(Len(frame[1].lines) - 1) :
         /\ Newlines(frame[1].lines[i]) # {}
         /\ Newlines(frame[1].lines[j]) = {}

\* the number of runes in the lines before line k (0-based)
RECURSIVE RunesBefore(_, _)
RunesBefore(lines, k) ==
    IF k <= 0 THEN 0 ELSE RunesBefore(lines, k - 1) + Len(lines[k])

\* C30: CalculateCursorLine returns the index of the line whose runes hold the
\* cursor position, and the index of the last line for a cursor at or past the
\* end of the text (0 for a text without lines); here the cursor of the engine
\* is never past the end, so the positions past it are asked for as well.
C30_CursorLineHoldsCursor ==
    frame # <<>> =>
        LET lines == frame[1].lines
            k == frame[1].cursorLine
        IN  IF cursorPos < Len(sampleRunes)
            THEN /\ k \in 0..(Len(lines) - 1)
                 /\ RunesBefore(lines, k) <= cursorPos
                 /\ cursorPos < RunesBefore(lines, k + 1)
            ELSE /\ k = Max0(Len(lines) - 1)
                 /\ \A pos \in Len(sampleRunes)..(Len(sampleRunes) + 2) :
                      CalculateCursorLine(sampleRunes, pos, frame[1].maxWidth)
                          = Max0(Len(lines) - 1)

\* C30 witness: the cursor at the end of a text of several lines, on its last
\* line
C30_Witness ==
    /\ frame # <<>>
    /\ cursorPos = Len(sampleRunes)
    /\ Len(frame[1].lines) >= 2
    /\ frame[1].cursorLine = Len(frame[1].lines) - 1

-----------------------------------------------------------------------------
\* the smallest multiple of the grid step that is no less than wpm
CeilToGrid(wpm) ==
    ((wpm + gridStep - 1) \div gridStep) * gridStep

\* C31: the upper bound of the Y axis of the graph is
\* ceil(maxObservedWPM/25)*25, and 25 at least, for every timeline that is
\* drawn, also when the largest WPM is a multiple of 25.
C31_YAxisIsCeiling ==
    frame # <<>> =>
        /\ \A i \in 1..Len(frame[1].history) :
               frame[1].history[i].WPM <= frame[1].observed
        /\ frame[1].maxWPM
               = (IF CeilToGrid(frame[1].observed) < gridStep THEN gridStep
                  ELSE CeilToGrid(frame[1].observed))

\* the text without its carriage returns
WithoutCR(text) ==
    SelectSeq(text, LAMBDA r : r # CR)

\* the text with a regular space for every Unicode space other than ' ', tab
\* and newline
WithRegularSpaces(text) ==
    [i \in 1..Len(text) |->
        IF text[i] \in UnicodeSpaces \cup ZeroWidth THEN SP ELSE text[i]]

\* C32: NormalizeWhitespace keeps spaces, tabs and newlines, drops carriage
\* returns and puts a regular space for every other Unicode space, the
\* zero-width ones too; normalizing its result again changes nothing.
C32_NormalizeWhitespace ==
    [][ AddText
        => /\ sampleRunes' = WithRegularSpaces(WithoutCR(sampleRunes))
           /\ \A i \in 1..Len(sampleRunes') :
                  IsSpace(sampleRunes'[i]) => sampleRunes'[i] \in {SP, TAB, NL}
           /\ NormalizeWhitespace(sampleRunes') = sampleRunes' ]_vars

\* C32 witness: a content with a carriage return, a zero-width space and a
\* non-breaking space, about to be added
C32_Witness ==
    /\ phase = "loading"
    /\ \E i, j, k \in 1..Len(sampleRunes) :
         /\ sampleRunes[i] = CR
         /\ sampleRunes[j] \in ZeroWidth
         /\ sampleRunes[k] = "nbsp"

-----------------------------------------------------------------------------
\* the start index of the word that ends at position pos of the text: the
\* index after the nearest space or newline before pos, or 0
StartOfWordBefore(sample, pos) ==
    LET starts == { j \in 0..pos : j = 0 \/ sample[j] \in {SP, NL} }
    IN  CHOOSE j \in starts : \A k \in starts : k <= j

\* C33: when Backspace moves the cursor onto a space of the text, wordStart is
\* the start index of the word before that space afterwards, so that what is
\* typed next belongs to that word.
C33_BackspaceReentersWord ==
    [][ (HandleBackspace /\ cursorPos' < cursorPos
                         /\ sampleRunes[cursorPos' + 1] = SP)
        => wordStart' = StartOfWordBefore(sampleRunes, cursorPos') ]_vars

-----------------------------------------------------------------------------
\* NewApp restores the record that Quit saved of the engine as it is: nothing
\* changes the engine between the two
RestoreOfThisSession ==
    /\ RestoreSucceeds
    /\ session[1] = SaveSession(Engine)

\* C34: the engine restored from a persisted record is the engine that was
\* saved, as far as typing goes on from it: cursor, input, word start and the
\* error flags of the words are those of the session at the time of the save.
C34_RestoreIsTheSavedEngine ==
    [][ RestoreOfThisSession
        => /\ cursorPos' = cursorPos
           /\ userRunes' = userRunes
           /\ wordStart' = wordStart
           /\ stats'.wordHadError = stats.wordHadError ]_vars

-----------------------------------------------------------------------------
\* a space is typed and accepted
SpaceTyped ==
    HandleRune(SP) /\ cursorPos < Len(sampleRunes)

\* nothing is recorded in the ledger
LedgerUnchanged ==
    /\ stats'.misspelledWords = stats.misspelledWords
    /\ stats'.misspelledOrder = stats.misspelledOrder

\* C35 as stated: a space typed after runes of the current word moves
\* wordStart to the cursor, so that the next space finds the word empty, and a
\* space typed when the current word is empty records nothing.
C35_EmptyWordRecordsNothing ==
    [][ SpaceTyped
        => /\ wordStart < cursorPos => wordStart' = cursorPos'
           /\ wordStart >= cursorPos => LedgerUnchanged ]_vars

\* C35 amended: a space typed after runes of the current word moves wordStart
\* to the cursor, and a space typed when the current word is empty records
\* nothing unless it is the keystroke at the last position of the text, where
\* checkCompletion records the last word if the space flagged it.
C35_EmptyWordRecordsNothingBeforeEnd ==
    [][ SpaceTyped
        => /\ wordStart < cursorPos => wordStart' = cursorPos'
           /\ (wordStart >= cursorPos /\ cursorPos + 1 < Len(sampleRunes))
                  => LedgerUnchanged
           /\ (wordStart >= cursorPos /\ cursorPos + 1 = Len(sampleRunes))
                  => \/ LedgerUnchanged
                     \/ /\ sampleRunes[cursorPos + 1] # SP
                        /\ LedgerSize(stats') = LedgerSize(stats) + 1 ]_vars

\* C35 witness: two spaces typed one after the other before the end of the
\* text; the first recorded the flagged word, the second recorded nothing
C35_Witness ==
    /\ cursorPos >= 2
    /\ cursorPos < Len(sampleRunes)
    /\ userRunes[cursorPos] = SP
    /\ userRunes[cursorPos - 1] = SP
    /\ wordStart = cursorPos - 1
    /\ LedgerSize(stats) = 1

-----------------------------------------------------------------------------
\* C36: every TypeNewline that is accepted leaves wordStart at the cursor,
\* one past the position of the keystroke, whether the current word had runes
\* or was empty.
C36_NewlineMovesWordStart ==
    [][ (HandleEnter /\ cursorPos < Len(sampleRunes))
        => /\ ret' = "true"
           /\ cursorPos' = cursorPos + 1
           /\ wordStart' = cursorPos' ]_vars

\* C36 witness: Enter was pressed right after a typed space, on an empty
\* current word, and wordStart is the cursor
C36_Witness ==
    /\ cursorPos >= 2
    /\ ret = "true"
    /\ userRunes[cursorPos] = NL
    /\ userRunes[cursorPos - 1] = SP
    /\ wordStart = cursorPos

-----------------------------------------------------------------------------
\* words handed to RecordMisspelledWord
RecordedWords == { <<"a">>, <<"i">>, <<"a", "i">> }

\* the order list holds the words of the ledger, each once, every count is 1 at
\* least, and one more RecordMisspelledWord of a word adds 1 to its count,
\* leaves the other counts, and appends the word to the order list if it is new
LedgerInOrder ==
    LET order == stats.misspelledOrder
        words == stats.misspelledWords
    IN  /\ \A i, j \in 1..Len(order) : order[i] = order[j] => i = j
        /\ { order[i] : i \in 1..Len(order) } = DOMAIN words
        /\ \A w \in DOMAIN words : words[w] >= 1
        /\ \A w \in RecordedWords :
              LET s2 == RecordMisspelledWord(stats, w)
              IN  /\ DOMAIN s2.misspelledWords = DOMAIN words \cup {w}
                  /\ s2.misspelledWords[w] = Count(words, w) + 1
                  /\ \A v \in DOMAIN words \ {w} : s2.misspelledWords[v] = words[v]
                  /\ s2.misspelledOrder
                         = (IF w \in DOMAIN words THEN order ELSE Append(order, w))

\* C37: the order list holds each word of the ledger exactly once, in the order
\* of the first recordings, and the count of a word is the number of its
\* recordings: after every sequence of RecordMisspelledWord calls, and after a
\* restore, which brings back the ledger that was saved.
C37_LedgerOrderAndCounts ==
    /\ []LedgerInOrder
    /\ [][ RestoreOfThisSession => LedgerUnchanged ]_vars

\* C37 witness: after a restore, a word recorded twice stands once in the order
\* list, before the word that was first recorded after it
C37_Witness ==
    /\ restored
    /\ Len(stats.misspelledOrder) = 2
    /\ Count(stats.misspelledWords, stats.misspelledOrder[1]) = 2
    /\ Count(stats.misspelledWords, stats.misspelledOrder[2]) = 1

-----------------------------------------------------------------------------
-----------------------------------------------------------------------------
\* a key of word mode after which handleKey extends the text
ExtendingKey(key) ==
    /\ WordsEventKey(key, MaxWordKeys)
    /\ handleKeyInMode(app, Engine, key, screenSize, now).extended

\* the test as the key left it, before the text is extended
Typed(key) ==
    handleKeyInMode(app, Engine, key, screenSize, now).typed

\* C39: an extension of the text of word mode keeps the progress of the test:
\* the cursor, the input, the keystroke counters, the start time and the ledger
\* are after the extension what the key left, and the old text is a prefix of
\* the new text.
C39_ExtensionKeepsProgress ==
    [][ \A key \in WordLimitKeys :
          ExtendingKey(key) =>
            /\ IsPrefixOf(sampleRunes, sampleRunes')
            /\ cursorPos' = Typed(key).cursorPos
            /\ userRunes' = Typed(key).userRunes
            /\ stats'.totalKeystrokes = Typed(key).stats.totalKeystrokes
            /\ stats'.correctKeystrokes = Typed(key).stats.correctKeystrokes
            /\ stats'.startTime = Typed(key).stats.startTime
            /\ stats'.misspelledWords = Typed(key).stats.misspelledWords
            /\ stats'.misspelledOrder = Typed(key).stats.misspelledOrder ]_vars

\* the part of C39 that the extension does keep: the old text is a prefix of
\* the new text, which is longer
C39_OldTextIsPrefix ==
    [][ \A key \in WordLimitKeys :
          ExtendingKey(key) =>
            /\ IsPrefixOf(sampleRunes, sampleRunes')
            /\ Len(sampleRunes') > Len(sampleRunes) ]_vars

\* an extension has happened: the text is longer than the first text
C39_Extended ==
    /\ app.mode = "words"
    /\ Len(sampleRunes) > 2 * (app.wordLimit * wordLimitMultiplier) - 1

-----------------------------------------------------------------------------
\* the time limit of a test of word mode has elapsed since the test started
LimitElapsed ==
    /\ phase = "running"
    /\ app.mode = "words"
    /\ app.limitType = "time"
    /\ app.testStarted # 0
    /\ now - app.testStarted >= app.timeLimit * TicksPerSecond

\* C40: in word mode under a time limit, once the limit has elapsed since the
\* test started, the test is eventually finished and the results are shown,
\* whether or not another key is pressed.
C40_TimeLimitEndsTest ==
    LimitElapsed ~> (finished /\ app.showResults)

\* what the code does for C40: the key that is handled after the limit has
\* elapsed on an open test ends the test and shows the results
C40_NextKeyEndsTest ==
    [][ \A key \in TimeLimitKeys :
          (LimitElapsed /\ ~finished /\ WordsEventKey(key, MaxKeys))
             => (finished' /\ app'.showResults) ]_vars

\* the limit has elapsed on a test that is still open, and the ticker has drawn
\* the remaining time of 0
C40_ElapsedAndOpen ==
    /\ LimitElapsed
    /\ ~finished
    /\ ~app.showResults
    /\ frame # <<>>
    /\ frame[1].progress = <<[time |-> 0]>>

====
